---- MODULE Spec2Model ----
(***************************************************************************)
(* A model of the prega-operator-analyzer pipeline: the catalog index      *)
(* parser (pkg/parser.go), the typed errors with their retry handler       *)
(* (pkg/errors.go), the batch run over the repositories and the analysis   *)
(* of one repository (pkg/vibe_tools.go, pkg/formatter.go), and the        *)
(* release-notes requests of the web server (pkg/server.go).               *)
(*                                                                         *)
(* Text is modelled as it is in Go: a string is a sequence of characters   *)
(* (each a one-character TLA+ string), indexed from 0 by the Go* helpers.  *)
(* The catalog documents are drawn from a bounded set built from the       *)
(* chunks of ChunkPool; all of them are written over ASCII letters,        *)
(* punctuation, space and newline (no digit, no minus sign and no          *)
(* backslash, so JSON numbers and escapes never occur).                    *)
(***************************************************************************)
EXTENDS Integers, Sequences, FiniteSets, TLC

----------------------------------------------------------------------------
(* Bounds of the model *)

\* A catalog document is at most MaxChunks chunks of ChunkPool, one after
\* the other, separated by newlines.
MaxChunks == 2

\* The retry handler is constructed with MaxRetries in 0..MaxRetriesBound.
MaxRetriesBound == 4

\* ProcessRepositories is given at most MaxRepos repositories.
MaxRepos == 5

\* Every history of at most MaxHistory commits is analyzed, and histories
\* of up to MaxExcess commits more than the formatter lists.
MaxHistory == 3
MaxExcess == 1

\* The server handles MaxRequests release-notes requests at a time.
MaxRequests == 2

----------------------------------------------------------------------------
(* Words *)

sRepository == <<"r","e","p","o","s","i","t","o","r","y">>
sPackages == <<"p","a","c","k","a","g","e","s">>
sChannels == <<"c","h","a","n","n","e","l","s">>
sEntries == <<"e","n","t","r","i","e","s">>
sProperties == <<"p","r","o","p","e","r","t","i","e","s">>
sType == <<"t","y","p","e">>
sValue == <<"v","a","l","u","e">>
sAnnotations == <<"a","n","n","o","t","a","t","i","o","n","s">>
sDescription == <<"d","e","s","c","r","i","p","t","i","o","n">>
sSchema == <<"s","c","h","e","m","a">>
sImage == <<"i","m","a","g","e">>
sRelatedImages == <<"r","e","l","a","t","e","d","I","m","a","g","e","s">>
sName == <<"n","a","m","e">>
sDefaultChannel == <<"d","e","f","a","u","l","t","C","h","a","n","n","e","l">>
sIcon == <<"i","c","o","n">>
sCurrentCSV == <<"c","u","r","r","e","n","t","C","S","V">>
sReplaces == <<"r","e","p","l","a","c","e","s">>
sSkips == <<"s","k","i","p","s">>
sSkipRange == <<"s","k","i","p","R","a","n","g","e">>
sOlmPackage == <<"o","l","m",".","p","a","c","k","a","g","e">>
sOlmBundle == <<"o","l","m",".","b","u","n","d","l","e">>
sOlmCsvMetadata == <<"o","l","m",".","c","s","v",".","m","e","t","a","d","a","t","a">>
sHttp == <<"h","t","t","p">>
sHttpScheme == <<"h","t","t","p",":","/","/">>
sHttpsScheme == <<"h","t","t","p","s",":","/","/">>
sGitAt == <<"g","i","t","@">>
sNull == <<"n","u","l","l">>
sTrue == <<"t","r","u","e">>
sFalse == <<"f","a","l","s","e">>
sNotJson == <<"n","o","t"," ","j","s","o","n">>

urlA == <<"h","t","t","p","s",":","/","/","a">>
urlB == <<"h","t","t","p","s",":","/","/","b">>
urlGit == <<"g","i","t","@","c">>
urlFtp == <<"f","t","p",":","/","/","d">>
urlHttp == <<"h","t","t","p",":","/","/","e">>
urlOperator == <<"h","t","t","p","s",":","/","/","g","i","t","h","u","b",".","c","o","m","/","t","e","s","t","/","o","p","e","r","a","t","o","r">>

Quote == "\""
Newline == "\n"
Space == " "

\* `"repository":`, the literal the raw-text scan looks for.
RepositoryKey == <<Quote>> \o sRepository \o <<Quote, ":">>

----------------------------------------------------------------------------
(* Go's strings package, on sequences of characters, 0-based *)

Range(s) == {s[i] : i \in 1..Len(s)}

SetMin(S) == CHOOSE x \in S : \A y \in S : x <= y

\* s[a:b]
GoSlice(s, a, b) == SubSeq(s, a + 1, b)

\* s[a:]
GoSliceFrom(s, a) == SubSeq(s, a + 1, Len(s))

\* strings.HasPrefix
HasPrefix(s, prefix) ==
    /\ Len(s) >= Len(prefix)
    /\ SubSeq(s, 1, Len(prefix)) = prefix

\* strings.Index: the 0-based place of the first occurrence, or -1
Index(s, substr) ==
    LET hits == {i \in 0..(Len(s) - Len(substr)) :
                    GoSlice(s, i, i + Len(substr)) = substr}
    IN  IF hits = {} THEN -1 ELSE SetMin(hits)

\* strings.Contains
Contains(s, substr) == Index(s, substr) # -1

IsSpace(c) == c \in {Space, Newline}

\* strings.TrimSpace
TrimSpace(s) ==
    LET keep == {i \in 1..Len(s) : ~IsSpace(s[i])}
    IN  IF keep = {} THEN <<>>
        ELSE SubSeq(s, SetMin(keep), CHOOSE i \in keep : \A j \in keep : j <= i)

\* strings.Split(s, "\n"): the pieces between newlines, empty pieces kept
RECURSIVE Split(_)
Split(s) ==
    LET nl == Index(s, <<Newline>>)
    IN  IF nl = -1 THEN <<s>>
        ELSE <<GoSlice(s, 0, nl)>> \o Split(GoSliceFrom(s, nl + 1))

----------------------------------------------------------------------------
(* encoding/json: decoding a text into a value.  A value is what Go's      *)
(* interface{} holds after json.Unmarshal: nil, a bool, a string, a        *)
(* []interface{} or a map[string]interface{} (kept as its members in       *)
(* document order; a lookup takes the last member of a key, as the decoder *)
(* overwrites).                                                            *)

JNull == [t |-> "null"]
JBool(b) == [t |-> "bool", b |-> b]
JStr(s) == [t |-> "str", s |-> s]
JArr(a) == [t |-> "arr", a |-> a]
JObj(o) == [t |-> "obj", o |-> o]

Failed == [ok |-> FALSE]
Parsed(v, i) == [ok |-> TRUE, v |-> v, i |-> i]

\* the place of the first character at or after i that is not white space
RECURSIVE SkipWS(_, _)
SkipWS(s, i) == IF i <= Len(s) /\ IsSpace(s[i]) THEN SkipWS(s, i + 1) ELSE i

StartsAt(s, i, word) ==
    /\ i + Len(word) - 1 <= Len(s)
    /\ SubSeq(s, i, i + Len(word) - 1) = word

\* a string literal opening at s[i]: up to the next quote; a newline in it
\* is a control character, which the scanner rejects
ScanString(s, i) ==
    LET close == {j \in (i + 1)..Len(s) : s[j] = Quote}
    IN  IF close = {} THEN Failed
        ELSE LET j == SetMin(close)
                 body == SubSeq(s, i + 1, j - 1)
             IN  IF Newline \in Range(body) THEN Failed
                 ELSE Parsed(JStr(body), j + 1)

RECURSIVE ScanValue(_, _), ScanMembers(_, _, _), ScanElements(_, _, _)

\* a value starting at s[i] (white space already skipped)
ScanValue(s, i) ==
    IF i > Len(s) THEN Failed
    ELSE IF s[i] = "{" THEN
        LET j == SkipWS(s, i + 1)
        IN  IF j <= Len(s) /\ s[j] = "}" THEN Parsed(JObj(<<>>), j + 1)
            ELSE ScanMembers(s, j, <<>>)
    ELSE IF s[i] = "[" THEN
        LET j == SkipWS(s, i + 1)
        IN  IF j <= Len(s) /\ s[j] = "]" THEN Parsed(JArr(<<>>), j + 1)
            ELSE ScanElements(s, j, <<>>)
    ELSE IF s[i] = Quote THEN ScanString(s, i)
    ELSE IF StartsAt(s, i, sNull) THEN Parsed(JNull, i + 4)
    ELSE IF StartsAt(s, i, sTrue) THEN Parsed(JBool(TRUE), i + 4)
    ELSE IF StartsAt(s, i, sFalse) THEN Parsed(JBool(FALSE), i + 5)
    ELSE Failed

\* the members of an object from s[i] on: "key" : value, then , or }
ScanMembers(s, i, acc) ==
    IF i > Len(s) \/ s[i] # Quote THEN Failed
    ELSE LET k == ScanString(s, i)
         IN  IF ~k.ok THEN Failed
             ELSE LET c == SkipWS(s, k.i)
                  IN  IF c > Len(s) \/ s[c] # ":" THEN Failed
                      ELSE LET v == ScanValue(s, SkipWS(s, c + 1))
                           IN  IF ~v.ok THEN Failed
                               ELSE LET e == SkipWS(s, v.i)
                                        more == Append(acc, [k |-> k.v.s, v |-> v.v])
                                    IN  IF e > Len(s) THEN Failed
                                        ELSE IF s[e] = "}" THEN Parsed(JObj(more), e + 1)
                                        ELSE IF s[e] = "," THEN ScanMembers(s, SkipWS(s, e + 1), more)
                                        ELSE Failed

\* the elements of an array from s[i] on: value, then , or ]
ScanElements(s, i, acc) ==
    LET v == ScanValue(s, i)
    IN  IF ~v.ok THEN Failed
        ELSE LET e == SkipWS(s, v.i)
                 more == Append(acc, v.v)
             IN  IF e > Len(s) THEN Failed
                 ELSE IF s[e] = "]" THEN Parsed(JArr(more), e + 1)
                 ELSE IF s[e] = "," THEN ScanElements(s, SkipWS(s, e + 1), more)
                 ELSE Failed

\* json.Unmarshal's syntax pass: the whole text is one value, white space
\* around it allowed, nothing after it
Decode(s) ==
    LET r == ScanValue(s, SkipWS(s, 1))
    IN  IF r.ok /\ SkipWS(s, r.i) = Len(s) + 1 THEN r ELSE Failed

\* m[key] on a decoded object: (value, exists)
HasKey(v, key) == v.t = "obj" /\ \E i \in 1..Len(v.o) : v.o[i].k = key

Get(v, key) ==
    LET at == CHOOSE i \in 1..Len(v.o) :
                 /\ v.o[i].k = key
                 /\ \A j \in (i + 1)..Len(v.o) : v.o[j].k # key
    IN  v.o[at].v

----------------------------------------------------------------------------
(* Decoding into the typed catalog structs of parser.go *)

KString == [k |-> "string"]
KAny == [k |-> "any"]
KSlice(of) == [k |-> "slice", of |-> of]
KStruct(name) == [k |-> "struct", name |-> name]

Field(tag, kind, omitempty) == [tag |-> tag, kind |-> kind, omitempty |-> omitempty]

\* the fields of each struct, by json tag, in declaration order
OperatorIndex ==
    << Field(sSchema, KString, FALSE), Field(sImage, KString, FALSE),
       Field(sRelatedImages, KAny, FALSE), Field(sProperties, KAny, FALSE),
       Field(sPackages, KSlice(KStruct("Package")), FALSE) >>

Package ==
    << Field(sSchema, KString, FALSE), Field(sName, KString, FALSE),
       Field(sDefaultChannel, KString, FALSE), Field(sDescription, KString, FALSE),
       Field(sIcon, KAny, FALSE), Field(sChannels, KSlice(KStruct("Channel")), FALSE) >>

Channel ==
    << Field(sName, KString, FALSE), Field(sCurrentCSV, KString, FALSE),
       Field(sEntries, KSlice(KStruct("Entry")), FALSE) >>

Entry ==
    << Field(sName, KString, FALSE), Field(sReplaces, KString, TRUE),
       Field(sSkips, KSlice(KString), TRUE), Field(sSkipRange, KString, TRUE),
       Field(sProperties, KSlice(KStruct("Property")), TRUE) >>

Property ==
    << Field(sType, KString, FALSE), Field(sValue, KAny, FALSE) >>

FieldsOf(name) ==
    CASE name = "OperatorIndex" -> OperatorIndex
      [] name = "Package" -> Package
      [] name = "Channel" -> Channel
      [] name = "Entry" -> Entry
      [] name = "Property" -> Property

\* encoding/json matches an object key to a struct field ignoring case
ToLower(c) ==
    CASE c = "C" -> "c" [] c = "I" -> "i" [] c = "R" -> "r"
      [] c = "S" -> "s" [] c = "V" -> "v" [] OTHER -> c

EqualFold(a, b) ==
    /\ Len(a) = Len(b)
    /\ \A i \in 1..Len(a) : ToLower(a[i]) = ToLower(b[i])

\* whether decoding value v into a Go value of the given kind reports an
\* UnmarshalTypeError: null fits everything, a string only a string, an
\* array only a slice, an object only a struct (interface{} takes all)
RECURSIVE TypeMismatch(_, _)
TypeMismatch(v, kind) ==
    IF kind.k = "any" \/ v.t = "null" THEN FALSE
    ELSE IF kind.k = "string" THEN v.t # "str"
    ELSE IF kind.k = "slice" THEN
        IF v.t # "arr" THEN TRUE
        ELSE \E i \in 1..Len(v.a) : TypeMismatch(v.a[i], kind.of)
    ELSE
        IF v.t # "obj" THEN TRUE
        ELSE \E i \in 1..Len(v.o) :
                \E f \in Range(FieldsOf(kind.name)) :
                    /\ EqualFold(v.o[i].k, f.tag)
                    /\ TypeMismatch(v.o[i].v, f.kind)

\* a decoder that reports no error and leaves the index zero instead
UnmarshalOperatorIndexLenient(content) ==
    LET d == Decode(content)
    IN  [err |-> FALSE,
         index |-> IF ~d.ok \/ TypeMismatch(d.v, KStruct("OperatorIndex"))
                   THEN JNull ELSE d.v]

\* json.Unmarshal(content, &index): an error on a syntax error or on a
\* type mismatch, and otherwise the decoded document
UnmarshalOperatorIndex(content) ==
    LET d == Decode(content)
    IN  IF ~d.ok \/ TypeMismatch(d.v, KStruct("OperatorIndex"))
        THEN [err |-> TRUE]
        ELSE [err |-> FALSE, index |-> d.v]

\* json.Unmarshal(text, &entry), entry a map[string]interface{}: only an
\* object or null decodes; null leaves the map nil, which reads as empty
UnmarshalEntry(text) ==
    LET d == Decode(text)
    IN  IF ~d.ok \/ d.v.t \notin {"obj", "null"} THEN [err |-> TRUE]
        ELSE [err |-> FALSE, entry |-> IF d.v.t = "obj" THEN d.v ELSE JObj(<<>>)]

\* the value decoded into the field tagged tag of a struct decoded from v
\* (null when the document does not give it)
FieldValue(v, tag) ==
    IF v.t # "obj" \/ ~\E i \in 1..Len(v.o) : EqualFold(v.o[i].k, tag) THEN JNull
    ELSE LET at == CHOOSE i \in 1..Len(v.o) :
                      /\ EqualFold(v.o[i].k, tag)
                      /\ \A j \in (i + 1)..Len(v.o) : ~EqualFold(v.o[j].k, tag)
         IN  v.o[at].v

\* the elements of a slice field
Elems(v) == IF v.t = "arr" THEN v.a ELSE <<>>

RECURSIVE ConcatAll(_)
ConcatAll(ss) == IF ss = <<>> THEN <<>> ELSE Head(ss) \o ConcatAll(Tail(ss))

\* for each x of xs, the elements of its slice field tag, in order
Each(xs, tag) == ConcatAll([i \in 1..Len(xs) |-> Elems(FieldValue(xs[i], tag))])

\* every property of every entry of every channel of every package
AllProperties(index) ==
    Each(Each(Each(Elems(FieldValue(index, sPackages)), sChannels), sEntries), sProperties)

\* a gate that passes every non-empty string
AcceptsAnyText(url) == url # <<>>

\* isValidRepositoryURL
isValidRepositoryURL(url) ==
    \/ HasPrefix(url, sHttpScheme)
    \/ HasPrefix(url, sHttpsScheme)
    \/ HasPrefix(url, sGitAt)

\* m[key] as a string that passes the URL gate: <<the string>>, or <<>>
\* when m is no map, the key is absent, or the value is no valid URL string
ValidRepositoryAt(m, key) ==
    IF m.t = "obj" /\ HasKey(m, key) /\ Get(m, key).t = "str"
          /\ isValidRepositoryURL(Get(m, key).s)
    THEN <<Get(m, key).s>>
    ELSE <<>>

\* the structured walk: prop.Value is a map holding a valid "repository"
StructuredRepositories(index) ==
    LET props == AllProperties(index)
    IN  ConcatAll([i \in 1..Len(props) |->
                      ValidRepositoryAt(FieldValue(props[i], sValue), sRepository)])

\* json.Marshal(index), then json.Unmarshal into a generic map: the struct
\* fields under their tags, zero values written out unless omitempty
IsEmptyValue(v, kind) ==
    \/ v.t = "null"
    \/ kind.k = "string" /\ v.s = <<>>
    \/ kind.k = "slice" /\ v.a = <<>>

RECURSIVE Remarshal(_, _)
Remarshal(v, kind) ==
    IF kind.k = "any" THEN v
    ELSE IF kind.k = "string" THEN (IF v.t = "str" THEN v ELSE JStr(<<>>))
    ELSE IF kind.k = "slice" THEN
        IF v.t # "arr" THEN JNull
        ELSE JArr([i \in 1..Len(v.a) |-> Remarshal(v.a[i], kind.of)])
    ELSE
        LET fields == FieldsOf(kind.name)
            Kept(f) == ~(f.omitempty /\ IsEmptyValue(FieldValue(v, f.tag), f.kind))
            kept == SelectSeq(fields, Kept)
        IN  JObj([i \in 1..Len(kept) |->
                    [k |-> kept[i].tag,
                     v |-> Remarshal(FieldValue(v, kept[i].tag), kept[i].kind)]])

----------------------------------------------------------------------------
(* The generic-entry strategy, for one entry *)

\* a property map of the given types: the repository its value gives
PropertyRepositories(prop) ==
    IF prop.t # "obj" \/ ~HasKey(prop, sType) \/ Get(prop, sType).t # "str"
          \/ ~HasKey(prop, sValue) \/ Get(prop, sValue).t # "obj"
    THEN <<>>
    ELSE LET propTypeStr == Get(prop, sType).s
             valueMap == Get(prop, sValue)
         IN  (IF propTypeStr = sOlmCsvMetadata /\ HasKey(valueMap, sAnnotations)
              THEN ValidRepositoryAt(Get(valueMap, sAnnotations), sRepository)
              ELSE <<>>)
             \o
             (IF propTypeStr \in {sOlmPackage, sOlmBundle}
              THEN ValidRepositoryAt(valueMap, sRepository)
              ELSE <<>>)

\* the URLs one entry admits: its own "repository", then its properties
EntryRepositories(entry) ==
    ValidRepositoryAt(entry, sRepository)
    \o
    (IF HasKey(entry, sProperties) /\ Get(entry, sProperties).t = "arr"
     THEN LET propsArray == Get(entry, sProperties).a
          IN  ConcatAll([i \in 1..Len(propsArray) |-> PropertyRepositories(propsArray[i])])
     ELSE <<>>)

----------------------------------------------------------------------------
(* The raw-text fallback *)

\* start += len(`"repository":`) + start + 1, start being the place of the
\* opening quote counted from the end of the key
ValueStart(start) == start + Len(RepositoryKey) + start + 1

\* one line of extractRepositoriesFromRawJSON: the strings it appends, or
\* a panic when the slice line[start:] is out of range
RawLine(rawLine) ==
    LET line == TrimSpace(rawLine)
        none == [panic |-> FALSE, found |-> <<>>]
    IN  IF ~Contains(line, RepositoryKey) THEN none
        ELSE LET afterKey == Index(line, RepositoryKey) + Len(RepositoryKey)
                 quote == Index(GoSliceFrom(line, afterKey), <<Quote>>)
             IN  IF quote = -1 THEN none
                 ELSE LET start == ValueStart(quote)
                      IN  IF start > Len(line) THEN [panic |-> TRUE, found |-> <<>>]
                          ELSE LET end == Index(GoSliceFrom(line, start), <<Quote>>)
                               IN  IF end = -1 THEN none
                                   ELSE LET repo == GoSlice(line, start, start + end)
                                        IN  IF repo # <<>> /\ HasPrefix(repo, sHttp)
                                            THEN [panic |-> FALSE, found |-> <<repo>>]
                                            ELSE none

\* extractRepositoriesFromRawJSON
extractRepositoriesFromRawJSON(content) ==
    LET lines == Split(content)
        each == [i \in 1..Len(lines) |-> RawLine(lines[i])]
    IN  [panic |-> \E i \in 1..Len(each) : each[i].panic,
         found |-> ConcatAll([i \in 1..Len(each) |-> each[i].found])]

----------------------------------------------------------------------------
(* The catalog documents the parser is run on *)

Q(w) == <<Quote>> \o w \o <<Quote>>

\* {"repository":"<url>"}
RepoObj(url) == <<"{">> \o Q(sRepository) \o <<":">> \o Q(url) \o <<"}">>

\* {"type":"<type>","value":<value>}
Prop(type, value) ==
    <<"{">> \o Q(sType) \o <<":">> \o Q(type) \o <<",">> \o Q(sValue) \o <<":">> \o value \o <<"}">>

\* "properties":[<prop>]
PropertiesMember(prop) == Q(sProperties) \o <<":", "[">> \o prop \o <<"]">>

\* "packages":[{"channels":[{"entries":[{"properties":[<prop>]}]}]}]
PackagesMember(prop) ==
    Q(sPackages) \o <<":", "[", "{">> \o Q(sChannels) \o <<":", "[", "{">>
        \o Q(sEntries) \o <<":", "[", "{">> \o PropertiesMember(prop)
        \o <<"}", "]", "}", "]", "}", "]">>

\* {"repository":"https://a"}
cDirectCompact == RepoObj(urlA)

\* {"repository": "https://a"}
cDirectSpaced == <<"{">> \o Q(sRepository) \o <<":", Space>> \o Q(urlA) \o <<"}">>

\* {"repository" : "http://e"}
cSpaceColon == <<"{">> \o Q(sRepository) \o <<Space, ":", Space>> \o Q(urlHttp) \o <<"}">>

\* {"repository":"ftp://d"}
cFtp == RepoObj(urlFtp)

\* a pretty-printed object of a shape no strategy knows, the key on a
\* line of its own:   {"name":{
\*                      "repository": "https://b"
\*                    }}
cNestedPretty ==
    <<"{">> \o Q(sName) \o <<":", "{", Newline, Space, Space>>
        \o Q(sRepository) \o <<":", Space>> \o Q(urlB) \o <<Newline, "}", "}">>

\* the same with an empty value after two spaces:  "repository":  ""
cNestedEmpty ==
    <<"{">> \o Q(sName) \o <<":", "{", Newline>>
        \o Q(sRepository) \o <<":", Space, Space, Quote, Quote, Newline, "}", "}">>

\* an object that is never closed
cOpen == <<"{">>

\* text that is no JSON
cNotJson == sNotJson

\* the structured document of the specification's example, on one line
cExample == <<"{">> \o PackagesMember(Prop(sOlmPackage, RepoObj(urlOperator))) \o <<"}">>

\* a structured document whose property is an olm.csv.metadata
cCsvMetadata ==
    <<"{">> \o PackagesMember(Prop(sOlmCsvMetadata,
                 <<"{">> \o Q(sAnnotations) \o <<":">> \o RepoObj(urlB) \o <<"}">>)) \o <<"}">>

\* a structured document with a brace inside a string value
cBraceInString ==
    <<"{">> \o Q(sDescription) \o <<":">> \o Q(<<"{">>) \o <<",">>
        \o PackagesMember(Prop(sOlmBundle, RepoObj(urlA))) \o <<"}">>

\* a structured document on two lines, the first one brace-balanced:
\*    {"description":"}",
\*    "packages":[...]}
cBrokenLine ==
    <<"{">> \o Q(sDescription) \o <<":">> \o Q(<<"}">>) \o <<",", Newline>>
        \o PackagesMember(Prop(sOlmPackage, RepoObj(urlA))) \o <<"}">>

\* the same with top-level properties instead of packages
cBrokenProps ==
    <<"{">> \o Q(sDescription) \o <<":">> \o Q(<<"}">>) \o <<",", Newline>>
        \o PropertiesMember(Prop(sOlmBundle, RepoObj(urlGit))) \o <<"}">>

\* catalog entries as the NDJSON catalogs have them
cBundleEntry == <<"{">> \o PropertiesMember(Prop(sOlmBundle, RepoObj(urlGit))) \o <<"}">>

cCsvEntry ==
    <<"{">> \o PropertiesMember(Prop(sOlmCsvMetadata,
                 <<"{">> \o Q(sAnnotations) \o <<":">> \o RepoObj(urlB) \o <<"}">>)) \o <<"}">>

\* one repository referenced in the three ways at once
cAllThree ==
    <<"{">> \o Q(sRepository) \o <<":", Space>> \o Q(urlA) \o <<",">>
        \o PackagesMember(Prop(sOlmPackage, RepoObj(urlA))) \o <<"}">>

ChunkPool ==
    { cDirectCompact, cDirectSpaced, cSpaceColon, cFtp, cNestedPretty, cNestedEmpty,
      cOpen, cNotJson, cExample, cCsvMetadata, cBraceInString, cBrokenLine,
      cBrokenProps, cBundleEntry, cCsvEntry, cAllThree }

\* the documents of n chunks
RECURSIVE DocumentsOf(_)
DocumentsOf(n) ==
    IF n = 1 THEN ChunkPool
    ELSE {d \o <<Newline>> \o c : d \in DocumentsOf(n - 1), c \in ChunkPool}

Documents == UNION {DocumentsOf(n) : n \in 1..MaxChunks}

\* what os.Stat, os.Open and io.ReadAll find at the path: no file, a file
\* that cannot be opened, one that cannot be read, or its bytes
Files ==
    { [state |-> "missing", content |-> <<>>],
      [state |-> "unopenable", content |-> <<>>],
      [state |-> "unreadable", content |-> <<>>] }
    \cup { [state |-> "ok", content |-> c] : c \in Documents \cup {<<>>} }

----------------------------------------------------------------------------
(* pkg/errors.go: the typed errors *)

ErrorTypeNetwork == "NETWORK_ERROR"
ErrorTypeGit == "GIT_ERROR"
ErrorTypeParsing == "PARSING_ERROR"
ErrorTypeFileSystem == "FILESYSTEM_ERROR"
ErrorTypeValidation == "VALIDATION_ERROR"
ErrorTypeTimeout == "TIMEOUT_ERROR"
ErrorTypeUnknown == "UNKNOWN_ERROR"

ErrorTypes ==
    { ErrorTypeNetwork, ErrorTypeGit, ErrorTypeParsing, ErrorTypeFileSystem,
      ErrorTypeValidation, ErrorTypeTimeout, ErrorTypeUnknown }

\* the nil error, and an error value that is no *AnalyzerError
Nil == [go |-> "nil"]
PlainError(text) == [go |-> "error", text |-> text]

\* NewAnalyzerError (the timestamp is left out: nothing reads it)
NewAnalyzerError(errorType, message, err) ==
    [go |-> "AnalyzerError", Type |-> errorType, Message |-> message,
     Context |-> <<>>, Err |-> err]

\* WithContext: e.Context[key] = value (Context as its pairs, one per key)
WithContext(e, key, value) ==
    [e EXCEPT !.Context =
        SelectSeq(@, LAMBDA kv : kv[1] # key) \o << <<key, value>> >>]

\* WrapError: NewAnalyzerError, then WithContext for every pair of context
RECURSIVE WithAllContext(_, _)
WithAllContext(e, context) ==
    IF context = <<>> THEN e
    ELSE WithAllContext(WithContext(e, Head(context)[1], Head(context)[2]), Tail(context))

WrapError(err, errorType, message, context) ==
    WithAllContext(NewAnalyzerError(errorType, message, err), context)

----------------------------------------------------------------------------
(* pkg/parser.go: ParseOperatorIndex, step by step *)

VARIABLES
    file,           \* what is at filePath
    pc,             \* where ParseOperatorIndex is
    content,        \* the bytes read
    lineNo,         \* the line the NDJSON loop is at, from 1
    currentJSON,    \* the lines gathered for the next object
    braceCount,
    ndjsonSuccess,
    allEntries,     \* the decoded entries, a sequence of objects
    repositories,   \* the map[string]bool, as its keys in insertion order
    result,         \* the slice returned
    parseErr        \* the error returned, Nil for none

parserVars ==
    << file, pc, content, lineNo, currentJSON, braceCount, ndjsonSuccess,
       allEntries, repositories, result, parseErr >>

\* ErrorHandler.HandleWithRetry, and a direct call of the two methods
VARIABLES
    maxRetries,     \* eh.MaxRetries
    rpc,            \* where HandleWithRetry is
    attempt,
    lastErr,
    delay,          \* the delay about to be slept
    outcomes,       \* what each invocation of the operation returned, in order
    sleeps,         \* the delays slept, in order
    notices,        \* the levels logged, in order
    returned,       \* what HandleWithRetry returned
    classified      \* an error with IsRetryable's and GetRetryDelay's answers

retryVars ==
    << maxRetries, rpc, attempt, lastErr, delay, outcomes, sleeps, notices,
       returned, classified >>

\* VibeToolsManager.ProcessRepositories
VARIABLES
    repos,          \* the repositories argument
    bpc,            \* where ProcessRepositories is
    repoIndex,      \* the repository the loop is at, from 1
    writes,         \* the outputFile.WriteString calls: the text, and whether
                    \* the file accepted it
    results,        \* per repository done: what HandleWithRetry returned (err)
                    \* and what the closure returned last
    successCount,
    errorCount,
    summary,        \* the summary composed at the end
    batchErr        \* what ProcessRepositories returned

batchVars ==
    << repos, bpc, repoIndex, writes, results, successCount, errorCount,
       summary, batchErr >>

\* the state of the operations modelled after the parser and the retry handler
VARIABLES
    useCursorAgent, \* vtm.UseCursorAgent
    onHost,         \* the external generators exec.LookPath finds
    invocations,    \* the runs of an external generator: did it succeed
    cloneURL,       \* the repoURL argument of generateReleaseNotes
    branches,       \* the branches the repository has
    history,        \* the commits repo.Log yields, newest first
    apc,            \* where generateReleaseNotes is
    dirs,           \* the directories there are below WorkDir
    commitCount,
    totalChanges,
    authorStats,
    commitDetails,
    contributors,
    notes,          \* the string returned
    notesErr        \* the error returned

analysisVars ==
    << useCursorAgent, onHost, invocations, cloneURL, branches, history, apc, dirs, commitCount,
       totalChanges, authorStats, commitDetails, contributors, notes,
       notesErr >>

VARIABLES
    requests,       \* req.Repository of each release-notes request
    spc,            \* where the handler of each request is
    analysisDirs,   \* the directories there are below WorkDir/analysis
    responses       \* what each handler answered

serverVars == << requests, spc, analysisDirs, responses >>

VARIABLES
    call,           \* a function called on its own, and its arguments
    value           \* what it returned

callVars == << call, value >>

afterAnalysisVars == << serverVars, callVars >>

afterBatchVars == << analysisVars, afterAnalysisVars >>

laterVars == << batchVars, afterBatchVars >>

vars == << parserVars, retryVars, laterVars >>

filePath == "index.json"

\* var result []string: a nil slice, which has no element
NilSlice == <<>>

\* a slice appended to where the code sets a map key
MapSetNoLookup(m, key) == Append(m, key)

\* repositories[key] = true
MapSet(m, key) == IF key \in Range(m) THEN m ELSE Append(m, key)

RECURSIVE MapSetAll(_, _)
MapSetAll(m, keys) ==
    IF keys = <<>> THEN m ELSE MapSetAll(MapSet(m, Head(keys)), Tail(keys))

\* for repo := range repositories { result = append(result, repo) }: the
\* keys in an order the runtime chooses
RangeOrders(m) == {[i \in 1..Len(m) |-> m[p[i]]] : p \in Permutations(1..Len(m))}

\* the net number of braces a line opens
BraceDelta(line) ==
    Cardinality({i \in 1..Len(line) : line[i] = "{"})
        - Cardinality({i \in 1..Len(line) : line[i] = "}"})

\* return nil, err
Fail(e) ==
    /\ pc' = "done"
    /\ result' = NilSlice
    /\ parseErr' = e

\* no ParseOperatorIndex call is in progress
ParserParked ==
    /\ file = [state |-> "missing", content |-> <<>>]
    /\ pc = "parked"
    /\ content = <<>>
    /\ lineNo = 1
    /\ currentJSON = <<>>
    /\ braceCount = 0
    /\ ndjsonSuccess = TRUE
    /\ allEntries = <<>>
    /\ repositories = <<>>
    /\ result = NilSlice
    /\ parseErr = Nil

\* no HandleWithRetry call is in progress
NotCalled == [go |-> "pending"]

RetryParked ==
    /\ maxRetries = 0
    /\ rpc = "parked"
    /\ attempt = 0
    /\ lastErr = Nil
    /\ delay = 0
    /\ outcomes = <<>>
    /\ sleeps = <<>>
    /\ notices = <<>>
    /\ returned = NotCalled
    /\ classified = NotCalled

\* no ProcessRepositories call is in progress
BatchParked ==
    /\ repos = <<>>
    /\ bpc = "parked"
    /\ repoIndex = 1
    /\ writes = <<>>
    /\ results = <<>>
    /\ successCount = 0
    /\ errorCount = 0
    /\ summary = NotCalled
    /\ batchErr = NotCalled

\* an author-to-count map with no key: make(map[string]int)
EmptyMap == << >>

\* no generateReleaseNotes call is in progress
AnalysisParked ==
    /\ useCursorAgent = FALSE
    /\ onHost = {}
    /\ invocations = <<>>
    /\ cloneURL = <<>>
    /\ branches = {}
    /\ history = <<>>
    /\ apc = "parked"
    /\ dirs = {}
    /\ commitCount = 0
    /\ totalChanges = 0
    /\ authorStats = EmptyMap
    /\ commitDetails = NilSlice
    /\ contributors = NilSlice
    /\ notes = NotCalled
    /\ notesErr = NotCalled

\* no request is being handled
ServerParked ==
    /\ requests = <<>>
    /\ spc = <<>>
    /\ analysisDirs = {}
    /\ responses = <<>>

\* no function is called on its own
CallsParked ==
    /\ call = [fn |-> "none"]
    /\ value = NotCalled

AfterAnalysisParked == ServerParked /\ CallsParked

AfterBatchParked == AnalysisParked /\ AfterAnalysisParked

LaterParked == BatchParked /\ AfterBatchParked

ParserInit ==
    /\ RetryParked
    /\ LaterParked
    /\ file \in Files
    /\ pc = "stat"
    /\ content = <<>>
    /\ lineNo = 1
    /\ currentJSON = <<>>
    /\ braceCount = 0
    /\ ndjsonSuccess = TRUE
    /\ allEntries = <<>>
    /\ repositories = <<>>
    /\ result = NilSlice
    /\ parseErr = Nil

\* os.Stat: only a missing file is reported here
Stat ==
    /\ pc = "stat"
    /\ IF file.state = "missing"
       THEN /\ Fail(WrapError(PlainError("not exist"), ErrorTypeFileSystem,
                        "index file does not exist", << <<"file_path", filePath>> >>))
       ELSE /\ pc' = "open"
            /\ UNCHANGED <<result, parseErr>>
    /\ UNCHANGED <<file, content, lineNo, currentJSON, braceCount, ndjsonSuccess,
                   allEntries, repositories>>
    /\ UNCHANGED <<retryVars, laterVars>>

\* os.Open
Open ==
    /\ pc = "open"
    /\ IF file.state = "unopenable"
       THEN /\ Fail(WrapError(PlainError("open"), ErrorTypeFileSystem,
                        "failed to open index file", << <<"file_path", filePath>> >>))
       ELSE /\ pc' = "read"
            /\ UNCHANGED <<result, parseErr>>
    /\ UNCHANGED <<file, content, lineNo, currentJSON, braceCount, ndjsonSuccess,
                   allEntries, repositories>>
    /\ UNCHANGED <<retryVars, laterVars>>

\* io.ReadAll without the check for an empty file
ReadAllNoEmptyCheck ==
    /\ pc = "read"
    /\ IF file.state = "unreadable"
       THEN /\ Fail(WrapError(PlainError("read"), ErrorTypeFileSystem,
                        "failed to read index file", << <<"file_path", filePath>> >>))
            /\ UNCHANGED content
       ELSE /\ content' = file.content
            /\ pc' = "ndjson"
            /\ UNCHANGED <<result, parseErr>>
    /\ UNCHANGED <<file, lineNo, currentJSON, braceCount, ndjsonSuccess,
                   allEntries, repositories>>
    /\ UNCHANGED <<retryVars, laterVars>>

\* io.ReadAll, and the check for an empty file
ReadAll ==
    /\ pc = "read"
    /\ IF file.state = "unreadable"
       THEN /\ Fail(WrapError(PlainError("read"), ErrorTypeFileSystem,
                        "failed to read index file", << <<"file_path", filePath>> >>))
            /\ UNCHANGED content
       ELSE /\ content' = file.content
            /\ IF Len(file.content) = 0
               THEN Fail(WrapError(Nil, ErrorTypeValidation, "index file is empty",
                             << <<"file_path", filePath>> >>))
               ELSE /\ pc' = "ndjson"
                    /\ UNCHANGED <<result, parseErr>>
    /\ UNCHANGED <<file, lineNo, currentJSON, braceCount, ndjsonSuccess,
                   allEntries, repositories>>
    /\ UNCHANGED <<retryVars, laterVars>>

\* one turn of the loop over the lines: gather the line, count its braces,
\* and decode what was gathered when the braces balance
NdjsonLine ==
    /\ pc = "ndjson"
    /\ lineNo <= Len(Split(content))
    /\ LET line == TrimSpace(Split(content)[lineNo])
           gathered == currentJSON \o line
           count == braceCount + BraceDelta(line)
           entry == UnmarshalEntry(gathered)
       IN  IF line = <<>>
           THEN /\ lineNo' = lineNo + 1
                /\ UNCHANGED <<pc, currentJSON, braceCount, ndjsonSuccess, allEntries>>
           ELSE IF count = 0 /\ gathered # <<>>
           THEN IF entry.err
                THEN \* break
                     /\ ndjsonSuccess' = FALSE
                     /\ currentJSON' = gathered
                     /\ braceCount' = count
                     /\ pc' = "regular"
                     /\ UNCHANGED <<lineNo, allEntries>>
                ELSE /\ allEntries' = Append(allEntries, entry.entry)
                     /\ currentJSON' = <<>>
                     /\ braceCount' = count
                     /\ lineNo' = lineNo + 1
                     /\ UNCHANGED <<pc, ndjsonSuccess>>
           ELSE /\ currentJSON' = gathered
                /\ braceCount' = count
                /\ lineNo' = lineNo + 1
                /\ UNCHANGED <<pc, ndjsonSuccess, allEntries>>
    /\ UNCHANGED <<file, content, repositories, result, parseErr>>
    /\ UNCHANGED <<retryVars, laterVars>>

\* the loop ran off the last line: ndjsonSuccess is still true
NdjsonEnd ==
    /\ pc = "ndjson"
    /\ lineNo > Len(Split(content))
    /\ pc' = "structured"
    /\ UNCHANGED <<file, content, lineNo, currentJSON, braceCount, ndjsonSuccess,
                   allEntries, repositories, result, parseErr>>
    /\ UNCHANGED <<retryVars, laterVars>>

\* if !ndjsonSuccess: the whole content as one OperatorIndex
ParseRegular ==
    /\ pc = "regular"
    /\ LET u == UnmarshalOperatorIndex(content)
       IN  IF u.err
           THEN /\ Fail(WrapError(PlainError("json"), ErrorTypeParsing, "failed to parse JSON",
                            << <<"file_path", filePath>>, <<"file_size", Len(content)>> >>))
                /\ UNCHANGED <<repositories, allEntries>>
           ELSE /\ repositories' = MapSetAll(repositories, StructuredRepositories(u.index))
                /\ allEntries' = <<Remarshal(u.index, KStruct("OperatorIndex"))>>
                /\ pc' = "structured"
                /\ UNCHANGED <<result, parseErr>>
    /\ UNCHANGED <<file, content, lineNo, currentJSON, braceCount, ndjsonSuccess>>
    /\ UNCHANGED <<retryVars, laterVars>>

\* the structured walk again, when there are entries but no repository yet
ParseStructured ==
    /\ pc = "structured"
    /\ LET u == UnmarshalOperatorIndex(content)
       IN  IF /\ Len(repositories) = 0
              /\ Len(allEntries) > 0
              /\ ~u.err
              /\ Len(Elems(FieldValue(u.index, sPackages))) > 0
           THEN repositories' = MapSetAll(repositories, StructuredRepositories(u.index))
           ELSE UNCHANGED repositories
    /\ pc' = "entries"
    /\ UNCHANGED <<file, content, lineNo, currentJSON, braceCount, ndjsonSuccess,
                   allEntries, result, parseErr>>
    /\ UNCHANGED <<retryVars, laterVars>>

\* the loop over allEntries
ExtractEntries ==
    /\ pc = "entries"
    /\ repositories' =
           MapSetAll(repositories,
               ConcatAll([i \in 1..Len(allEntries) |-> EntryRepositories(allEntries[i])]))
    /\ pc' = "raw"
    /\ UNCHANGED <<file, content, lineNo, currentJSON, braceCount, ndjsonSuccess,
                   allEntries, result, parseErr>>
    /\ UNCHANGED <<retryVars, laterVars>>

\* the raw-text fallback, gated by isValidRepositoryURL; an out-of-range
\* slice panics and nothing is returned
ExtractRaw ==
    /\ pc = "raw"
    /\ LET raw == extractRepositoriesFromRawJSON(content)
       IN  IF raw.panic
           THEN /\ pc' = "panic"
                /\ UNCHANGED repositories
           ELSE /\ pc' = "collect"
                /\ repositories' =
                       MapSetAll(repositories, SelectSeq(raw.found, isValidRepositoryURL))
    /\ UNCHANGED <<file, content, lineNo, currentJSON, braceCount, ndjsonSuccess,
                   allEntries, result, parseErr>>
    /\ UNCHANGED <<retryVars, laterVars>>

\* the map keys as a slice, and the return
Collect ==
    /\ pc = "collect"
    /\ IF Len(repositories) = 0
       THEN Fail(WrapError(Nil, ErrorTypeValidation, "no valid repositories found in index",
                     << <<"file_path", filePath>> >>))
       ELSE /\ result' \in RangeOrders(repositories)
            /\ parseErr' = Nil
            /\ pc' = "done"
    /\ UNCHANGED <<file, content, lineNo, currentJSON, braceCount, ndjsonSuccess,
                   allEntries, repositories>>
    /\ UNCHANGED <<retryVars, laterVars>>

ParserNext ==
    \/ Stat
    \/ Open
    \/ ReadAll
    \/ NdjsonLine
    \/ NdjsonEnd
    \/ ParseRegular
    \/ ParseStructured
    \/ ExtractEntries
    \/ ExtractRaw
    \/ Collect

ParserSpec == ParserInit /\ [][ParserNext]_vars

----------------------------------------------------------------------------
(* pkg/errors.go: IsRetryable, GetRetryDelay, HandleWithRetry *)

\* time.Second counted as 1
NetworkRetryDelay == 5
TimeoutRetryDelay == 10
GitRetryDelay == 3
NoRetryDelay == 0

\* NewErrorHandler(3, logger) in NewVibeToolsManager
DefaultMaxRetries == 3

sFailedToClone == "failed to clone repository"
sFailedToFetch == "failed to fetch"
sBranchNotFound == "branch not found"
sRequestFailed == "request failed"
sUnknownErrorOccurred == "Unknown error occurred"

\* a table in which every Git error is retryable
IsRetryableAnyGit(e) ==
    e.Type \in {ErrorTypeNetwork, ErrorTypeTimeout, ErrorTypeGit}

IsRetryable(e) ==
    CASE e.Type \in {ErrorTypeNetwork, ErrorTypeTimeout} -> TRUE
      [] e.Type = ErrorTypeGit ->
            e.Message = sFailedToClone \/ e.Message = sFailedToFetch
      [] OTHER -> FALSE

GetRetryDelay(e) ==
    CASE e.Type = ErrorTypeNetwork -> NetworkRetryDelay
      [] e.Type = ErrorTypeTimeout -> TimeoutRetryDelay
      [] e.Type = ErrorTypeGit -> GitRetryDelay
      [] OTHER -> NoRetryDelay

\* err.(*AnalyzerError), or the error wrapped as an unknown one
AsAnalyzerError(err) ==
    IF err.go = "AnalyzerError" THEN err
    ELSE NewAnalyzerError(ErrorTypeUnknown, sUnknownErrorOccurred, err)

\* a break one attempt before the last
ShouldBreakOneEarly(analyzerErr, n, max) ==
    ~IsRetryable(analyzerErr) \/ n = max - 1

\* a break at the last attempt only
ShouldBreakOnlyAtLast(analyzerErr, n, max) == n = max

\* if !analyzerErr.IsRetryable() || attempt == eh.MaxRetries { break }
ShouldBreak(analyzerErr, n, max) == ~IsRetryable(analyzerErr) \/ n = max

\* attempt <= eh.MaxRetries
LoopCondition(n, max) == n <= max

\* the errors the two methods are asked about
Messages == {sFailedToClone, sFailedToFetch, sBranchNotFound}
Causes == {Nil, PlainError("cause")}
Contexts == {<<>>, << <<"repository", "r">> >>}

AnalyzerErrors ==
    {WithAllContext(NewAnalyzerError(t, m, c), x) :
        t \in ErrorTypes, m \in Messages, c \in Causes, x \in Contexts}

\* what an invocation of the operation can return
OperationErrors ==
    {NewAnalyzerError(t, sRequestFailed, Nil) : t \in ErrorTypes}
        \cup {NewAnalyzerError(ErrorTypeGit, m, PlainError("cause")) : m \in Messages}
        \cup {PlainError("boom")}

OperationResults == {Nil} \cup OperationErrors

RetryInit ==
    /\ ParserParked
    /\ LaterParked
    /\ maxRetries \in 0..MaxRetriesBound
    /\ rpc = "idle"
    /\ attempt = 0
    /\ lastErr = Nil
    /\ delay = 0
    /\ outcomes = <<>>
    /\ sleeps = <<>>
    /\ notices = <<>>
    /\ returned = NotCalled
    /\ classified = NotCalled

\* e.IsRetryable() and e.GetRetryDelay() called on an error
Classify ==
    /\ rpc = "idle"
    /\ \E e \in AnalyzerErrors :
        classified' = [err |-> e, retryable |-> IsRetryable(e),
                       delay |-> GetRetryDelay(e)]
    /\ rpc' = "classified"
    /\ UNCHANGED <<maxRetries, attempt, lastErr, delay, outcomes, sleeps,
                   notices, returned>>
    /\ UNCHANGED <<parserVars, laterVars>>

\* HandleWithRetry is called: var lastErr error; attempt := 0
Begin ==
    /\ rpc = "idle"
    /\ rpc' = IF LoopCondition(attempt, maxRetries) THEN "call" ELSE "giveup"
    /\ UNCHANGED <<maxRetries, attempt, lastErr, delay, outcomes, sleeps,
                   notices, returned, classified>>
    /\ UNCHANGED <<parserVars, laterVars>>

\* the last thing the operation returned
LastOutcome == outcomes[Len(outcomes)]

\* what the loop body does with the err the operation returned, up to the
\* break
LoopBody(err) ==
    /\ outcomes' = Append(outcomes, err)
    /\ IF err = Nil
       THEN /\ notices' = IF attempt > 0 THEN Append(notices, "info")
                                         ELSE notices
            /\ returned' = Nil
            /\ rpc' = "returned"
            /\ UNCHANGED <<lastErr, delay>>
       ELSE /\ lastErr' = err
            /\ IF ShouldBreak(AsAnalyzerError(err), attempt, maxRetries)
               THEN /\ rpc' = "giveup"
                    /\ UNCHANGED delay
               ELSE /\ rpc' = "sleep"
                    /\ delay' = GetRetryDelay(AsAnalyzerError(err))
            /\ UNCHANGED <<notices, returned>>
    /\ UNCHANGED <<maxRetries, attempt, sleeps, classified>>

\* err := operation(), and the loop body
Invoke ==
    /\ rpc = "call"
    /\ \E err \in OperationResults : LoopBody(err)
    /\ UNCHANGED <<parserVars, laterVars>>

\* Warnf, time.Sleep(delay), attempt++ and the loop condition
SleepAndAdvance ==
    /\ rpc = "sleep"
    /\ notices' = Append(notices, "warn")
    /\ sleeps' = Append(sleeps, delay)
    /\ attempt' = attempt + 1
    /\ rpc' = IF LoopCondition(attempt + 1, maxRetries) THEN "call" ELSE "giveup"
    /\ UNCHANGED <<maxRetries, lastErr, delay, outcomes, returned, classified>>

\* the sleep and the advance without the Warnf
SleepUnannounced ==
    /\ rpc = "sleep"
    /\ sleeps' = Append(sleeps, delay)
    /\ attempt' = attempt + 1
    /\ rpc' = IF LoopCondition(attempt + 1, maxRetries) THEN "call" ELSE "giveup"
    /\ UNCHANGED <<maxRetries, lastErr, delay, outcomes, returned, classified,
                   notices>>
    /\ UNCHANGED <<parserVars, laterVars>>

Sleep ==
    /\ SleepAndAdvance
    /\ UNCHANGED <<parserVars, laterVars>>

\* Errorf and a return of the error as it was classified
GiveUpClassified ==
    /\ rpc = "giveup"
    /\ notices' = Append(notices, "error")
    /\ returned' = AsAnalyzerError(lastErr)
    /\ rpc' = "returned"
    /\ UNCHANGED <<maxRetries, attempt, lastErr, delay, outcomes, sleeps,
                   classified>>
    /\ UNCHANGED <<parserVars, laterVars>>

\* Errorf and return lastErr
ReturnLastErr ==
    /\ rpc = "giveup"
    /\ notices' = Append(notices, "error")
    /\ returned' = lastErr
    /\ rpc' = "returned"
    /\ UNCHANGED <<maxRetries, attempt, lastErr, delay, outcomes, sleeps,
                   classified>>

GiveUp ==
    /\ ReturnLastErr
    /\ UNCHANGED <<parserVars, laterVars>>

RetryNext ==
    \/ Classify
    \/ Begin
    \/ Invoke
    \/ Sleep
    \/ GiveUp

\* an ErrorHandler made with any maxRetries, a negative one too
RetryAnyInit ==
    /\ ParserParked
    /\ LaterParked
    /\ maxRetries \in -1..MaxRetriesBound
    /\ rpc = "idle"
    /\ attempt = 0
    /\ lastErr = Nil
    /\ delay = 0
    /\ outcomes = <<>>
    /\ sleeps = <<>>
    /\ notices = <<>>
    /\ returned = NotCalled
    /\ classified = NotCalled

RetryAnySpec == RetryAnyInit /\ [][RetryNext]_vars /\ WF_vars(RetryNext)

\* the operation returns and the sleep ends, so a call in progress goes on
RetrySpec == RetryInit /\ [][RetryNext]_vars /\ WF_vars(RetryNext)

----------------------------------------------------------------------------
(* pkg/vibe_tools.go: what generateReleaseNotes hands back *)

sDotGit == <<".", "g", "i", "t">>
Slash == "/"

\* strings.TrimSuffix
TrimSuffix(s, suffix) ==
    IF Len(s) >= Len(suffix) /\ GoSliceFrom(s, Len(s) - Len(suffix)) = suffix
    THEN GoSlice(s, 0, Len(s) - Len(suffix)) ELSE s

\* the last of strings.Split(s, "/")
LastSegment(s) ==
    LET cuts == {i \in 1..Len(s) : s[i] = Slash}
    IN  IF cuts = {} THEN s
        ELSE SubSeq(s, (CHOOSE i \in cuts : \A j \in cuts : j <= i) + 1, Len(s))

extractRepoName(repoURL) == LastSegment(TrimSuffix(repoURL, sDotGit))

WorkDir == <<"w">>

sDot == <<".">>
sDotDot == <<".", ".">>

\* filepath.Dir of a clean relative path
Dir(path) ==
    LET cuts == {i \in 1..Len(path) : path[i] = Slash}
    IN  IF cuts = {} THEN sDot
        ELSE SubSeq(path, 1, (CHOOSE i \in cuts : \A j \in cuts : j <= i) - 1)

\* filepath.Join of a clean path and one element without a separator: an
\* empty element is ignored and the result is cleaned
Join(dir, elem) ==
    IF elem = <<>> \/ elem = sDot THEN dir
    ELSE IF elem = sDotDot THEN Dir(dir)
    ELSE dir \o <<Slash>> \o elem

\* filepath.Join(vtm.WorkDir, repoName)
RepoPath(repoURL) == Join(WorkDir, extractRepoName(repoURL))

sFailedToOpen == "failed to open repository"
sFailedToGetBranch == "failed to get main/master branch reference"
sFailedToGetCommit == "failed to get commit object"
sFailedToGetLog == "failed to get commit log"
sFailedToWriteNotes == "failed to write release notes"

\* the error of a failed git.PlainClone, wrapped
CloneError(repoURL) ==
    WrapError(PlainError("clone"), ErrorTypeGit, sFailedToClone,
              << <<"repository", repoURL>>, <<"repo_path", RepoPath(repoURL)>> >>)

\* the errors of generateBasicReleaseNotes, wrapped
BasicError(repoURL, message) ==
    WrapError(PlainError("git"), ErrorTypeGit, message,
              << <<"repo_path", RepoPath(repoURL)>> >>)

BasicErrors(repoURL) ==
    {BasicError(repoURL, m) :
        m \in {sFailedToOpen, sFailedToGetBranch, sFailedToGetCommit, sFailedToGetLog}}

\* the error of the closure when the notes cannot be written
WriteError(repoURL) ==
    WrapError(PlainError("write"), ErrorTypeFileSystem, sFailedToWriteNotes,
              << <<"repository", repoURL>>, <<"output_file", "out.txt">> >>)

----------------------------------------------------------------------------
(* pkg/vibe_tools.go: ProcessRepositories, with the HandleWithRetry call of *)
(* each repository stepped as in pkg/errors.go.  The HTML file is left out: *)
(* failing to create it is only logged, and nothing written to it reaches   *)
(* the text report, the counters or the value returned.                     *)

Letters == <<"a", "b", "c", "d", "e", "f", "g", "h">>

\* the repositories argument: n distinct URLs
InputRepositories(n) == [i \in 1..n |-> sHttpsScheme \o <<"h", Slash, Letters[i]>>]

\* what generateReleaseNotes fails with here: once retryable, once not
BatchFailures(repoURL) ==
    {CloneError(repoURL), BasicError(repoURL, sFailedToGetBranch)}

\* header: "Release Notes Generated on: ..." and its rule
ReportHeader == [sec |-> "header", generated |-> "now"]

\* the releaseNotes of a repository
NotesSection(repoURL) == [sec |-> "notes", repo |-> repoURL]

\* AnalyzerError.Error(): "[Type] Message: cause", or "[Type] Message"
ErrorText(err) ==
    IF err.go = "AnalyzerError"
    THEN IF err.Err # Nil THEN <<err.Type, err.Message, err.Err.text>>
                          ELSE <<err.Type, err.Message>>
    ELSE <<err.text>>

\* an error section that leaves the error out
FormatErrorSectionBare(repoURL, err) ==
    [sec |-> "error", repo |-> repoURL, error |-> <<>>, timestamp |-> "now"]

\* FormatErrorSection
FormatErrorSection(repoURL, err) ==
    [sec |-> "error", repo |-> repoURL, error |-> ErrorText(err),
     timestamp |-> "now"]

\* "%.1f" of float64(successCount)/float64(len(repositories))*100, in
\* tenths of a percent; 0/0 is NaN
SuccessRate(success, total) ==
    IF total = 0 THEN [nan |-> TRUE]
    ELSE [tenths |-> (2000 * success + total) \div (2 * total)]

\* the processing summary
ProcessingSummary(total, success, failed) ==
    [sec |-> "summary", total |-> total, success |-> success,
     failed |-> failed, rate |-> SuccessRate(success, total),
     generated |-> "now"]

\* outputFile.WriteString: the file takes the whole text, or the write fails
WriteString(calls, text, accepted) ==
    Append(calls, [text |-> text, accepted |-> accepted])

\* what the output file holds in the end: the texts it accepted, in order
Accepted(calls) ==
    LET kept == SelectSeq(calls, LAMBDA w : w.accepted)
    IN  [i \in 1..Len(kept) |-> kept[i].text]

\* NewVibeToolsManager, and the call of ProcessRepositories
BatchInit ==
    /\ ParserParked
    /\ AfterBatchParked
    /\ maxRetries = DefaultMaxRetries
    /\ rpc = "parked"
    /\ attempt = 0
    /\ lastErr = Nil
    /\ delay = 0
    /\ outcomes = <<>>
    /\ sleeps = <<>>
    /\ notices = <<>>
    /\ returned = NotCalled
    /\ classified = NotCalled
    /\ repos \in {InputRepositories(n) : n \in 0..MaxRepos}
    /\ bpc = "create"
    /\ repoIndex = 1
    /\ writes = <<>>
    /\ results = <<>>
    /\ successCount = 0
    /\ errorCount = 0
    /\ summary = NotCalled
    /\ batchErr = NotCalled

\* os.Create(vtm.OutputFile)
CreateOutput ==
    /\ bpc = "create"
    /\ \E created \in BOOLEAN :
        IF created
        THEN /\ bpc' = "header"
             /\ UNCHANGED batchErr
        ELSE /\ bpc' = "done"
             /\ batchErr' = WrapError(PlainError("create"), ErrorTypeFileSystem,
                                "failed to create output file",
                                << <<"output_file", "out.txt">> >>)
    /\ UNCHANGED <<repos, repoIndex, writes, results, successCount, errorCount,
                   summary>>
    /\ UNCHANGED <<parserVars, retryVars, afterBatchVars>>

\* the header is written
WriteHeader ==
    /\ bpc = "header"
    /\ \E accepted \in BOOLEAN :
        /\ writes' = WriteString(writes, ReportHeader, accepted)
        /\ IF accepted
           THEN /\ bpc' = "loop"
                /\ UNCHANGED batchErr
           ELSE /\ bpc' = "done"
                /\ batchErr' = WrapError(PlainError("write"), ErrorTypeFileSystem,
                                   "failed to write header",
                                   << <<"output_file", "out.txt">> >>)
    /\ UNCHANGED <<repos, repoIndex, results, successCount, errorCount, summary>>
    /\ UNCHANGED <<parserVars, retryVars, afterBatchVars>>

\* for i, repo := range repositories: HandleWithRetry is entered
EnterRetry ==
    /\ bpc = "loop"
    /\ repoIndex <= Len(repos)
    /\ bpc' = "handle"
    /\ attempt' = 0
    /\ lastErr' = Nil
    /\ delay' = 0
    /\ outcomes' = <<>>
    /\ sleeps' = <<>>
    /\ notices' = <<>>
    /\ returned' = NotCalled
    /\ rpc' = IF LoopCondition(0, maxRetries) THEN "call" ELSE "giveup"
    /\ UNCHANGED <<maxRetries, classified>>
    /\ UNCHANGED <<repos, repoIndex, writes, results, successCount, errorCount,
                   summary, batchErr>>
    /\ UNCHANGED <<parserVars, afterBatchVars>>

\* the closure: generateReleaseNotes, then the notes are written; and the
\* loop body of HandleWithRetry on what the closure returned
Operation ==
    /\ bpc = "handle"
    /\ rpc = "call"
    /\ \/ \E err \in BatchFailures(repos[repoIndex]) :
            /\ LoopBody(err)
            /\ UNCHANGED writes
       \/ \E accepted \in BOOLEAN :
            /\ writes' = WriteString(writes, NotesSection(repos[repoIndex]), accepted)
            /\ LoopBody(IF accepted THEN Nil ELSE WriteError(repos[repoIndex]))
    /\ UNCHANGED <<repos, bpc, repoIndex, results, successCount, errorCount,
                   summary, batchErr>>
    /\ UNCHANGED <<parserVars, afterBatchVars>>

BatchSleep ==
    /\ bpc = "handle"
    /\ SleepAndAdvance
    /\ UNCHANGED batchVars
    /\ UNCHANGED <<parserVars, afterBatchVars>>

BatchGiveUp ==
    /\ bpc = "handle"
    /\ ReturnLastErr
    /\ UNCHANGED batchVars
    /\ UNCHANGED <<parserVars, afterBatchVars>>

\* a loop that returns the error of the first repository that fails
RecordResultAborting ==
    /\ bpc = "handle"
    /\ rpc = "returned"
    /\ IF returned # Nil
       THEN /\ batchErr' = returned
            /\ bpc' = "done"
            /\ UNCHANGED <<successCount, repoIndex>>
       ELSE /\ successCount' = successCount + 1
            /\ repoIndex' = repoIndex + 1
            /\ bpc' = "loop"
            /\ UNCHANGED batchErr
    /\ results' = Append(results, [err |-> returned, last |-> LastOutcome])
    /\ UNCHANGED <<repos, writes, errorCount, summary>>
    /\ UNCHANGED <<parserVars, retryVars, afterBatchVars>>

\* a loop that counts a failure only when its section was written
RecordResultUncounted ==
    /\ bpc = "handle"
    /\ rpc = "returned"
    /\ IF returned # Nil
       THEN /\ \E accepted \in BOOLEAN :
                /\ writes' = WriteString(writes,
                                 FormatErrorSection(repos[repoIndex], returned), accepted)
                /\ errorCount' = IF accepted THEN errorCount + 1 ELSE errorCount
            /\ UNCHANGED successCount
       ELSE /\ successCount' = successCount + 1
            /\ UNCHANGED <<errorCount, writes>>
    /\ results' = Append(results, [err |-> returned, last |-> LastOutcome])
    /\ repoIndex' = repoIndex + 1
    /\ bpc' = "loop"
    /\ UNCHANGED <<repos, summary, batchErr>>
    /\ UNCHANGED <<parserVars, retryVars, afterBatchVars>>

\* what the loop does with what HandleWithRetry returned
RecordResult ==
    /\ bpc = "handle"
    /\ rpc = "returned"
    /\ IF returned # Nil
       THEN /\ errorCount' = errorCount + 1
            /\ \E accepted \in BOOLEAN :
                writes' = WriteString(writes,
                              FormatErrorSection(repos[repoIndex], returned), accepted)
            /\ UNCHANGED successCount
       ELSE /\ successCount' = successCount + 1
            /\ UNCHANGED <<errorCount, writes>>
    /\ results' = Append(results, [err |-> returned, last |-> LastOutcome])
    /\ repoIndex' = repoIndex + 1
    /\ bpc' = "loop"
    /\ UNCHANGED <<repos, summary, batchErr>>
    /\ UNCHANGED <<parserVars, retryVars, afterBatchVars>>

\* the summary is composed and written, and nil is returned
WriteSummary ==
    /\ bpc = "loop"
    /\ repoIndex > Len(repos)
    /\ summary' = ProcessingSummary(Len(repos), successCount, errorCount)
    /\ \E accepted \in BOOLEAN :
        writes' = WriteString(writes,
                      ProcessingSummary(Len(repos), successCount, errorCount), accepted)
    /\ batchErr' = Nil
    /\ bpc' = "done"
    /\ UNCHANGED <<repos, repoIndex, results, successCount, errorCount>>
    /\ UNCHANGED <<parserVars, retryVars, afterBatchVars>>

BatchNext ==
    \/ CreateOutput
    \/ WriteHeader
    \/ EnterRetry
    \/ Operation
    \/ BatchSleep
    \/ BatchGiveUp
    \/ RecordResult
    \/ WriteSummary

BatchSpec == BatchInit /\ [][BatchNext]_vars

-----------------------------------------------------------------------------
(* pkg/vibe_tools.go: generateReleaseNotes with its three generators, and   *)
(* pkg/formatter.go: the section a generator returns.  A section is the     *)
(* sequence of its lines; a line is its label and the values printed in it. *)
(* os.RemoveAll is taken to remove the directory.                           *)

DefaultMaxContributors == 5
DefaultMaxCommits == 50

\* NewReleaseNoteFormatter()
NewReleaseNoteFormatter ==
    [MaxContributors |-> DefaultMaxContributors, MaxCommits |-> DefaultMaxCommits]

\* c.Author.Name: six names, one of them with the words of a contributor
\* line in it
Authors ==
    << <<"a", "n", "n">>,
       <<"b", "o", " ", "(", "1", " ", "c", "o", "m", "m", "i", "t", "s", ")">>,
       <<"c", "y">>, <<"d", "e", "e">>, <<"e", "v", "e">>, <<"f", "a", "y">> >>

Digits == <<"0", "1", "2", "3", "4", "5", "6", "7", "8", "9">>

\* "%d" of a number that is not negative
RECURSIVE Itoa(_)
Itoa(n) ==
    IF n < 10 THEN <<Digits[n + 1]>>
    ELSE Itoa(n \div 10) \o <<Digits[(n % 10) + 1]>>

\* the first characters of c.Hash.String(), one more than the code keeps
Hash(i) ==
    <<"0", "0", "0", "0", "0", "0", Digits[((i \div 10) % 10) + 1],
      Digits[(i % 10) + 1], "f">>

\* c.Hash.String()[:8]
ShortHash(hash) == GoSlice(hash, 0, 8)

\* what c.Stats() does: the lines added and deleted, an error, or a panic
StatsOk(lines) == [stats |-> "ok", lines |-> lines]
StatsError == [stats |-> "error"]
StatsPanic == [stats |-> "panic"]
StatsOutcomes == {StatsOk(2), StatsError, StatsPanic}

\* an object.Commit; When counts the commits from the oldest
Commit(i, author, stats) ==
    [Hash |-> Hash(i), Message |-> <<"m", Digits[(i % 10) + 1], Newline>>,
     Author |-> author, When |-> i, Stats |-> stats]

\* the commits of the last week, newest first: every short history of two
\* authors, and histories of six authors that reach past MaxCommits
ShortHistories ==
    UNION {{[k \in 1..n |-> Commit(n + 1 - k, Authors[a[k]], st[k])] :
                a \in [1..n -> 1..2], st \in [1..n -> StatsOutcomes]} :
           n \in 0..MaxHistory}

LongHistories ==
    {[k \in 1..n |->
        Commit(n + 1 - k, Authors[((k - 1) % Len(Authors)) + 1], StatsOk(1))] :
     n \in DefaultMaxCommits..(DefaultMaxCommits + MaxExcess)}

Histories == ShortHistories \cup LongHistories

\* the tip of a branch none of whose commits is of the last week
OldTip == Commit(0, Authors[1], StatsOk(1))

\* the commit ref.Hash() names
Tip(commits) == IF commits = <<>> THEN OldTip ELSE commits[1]

\* CommitInfo{...} of the tip
LatestCommitInfo(c) ==
    [Hash |-> ShortHash(c.Hash), Message |-> c.Message, Author |-> c.Author,
     Date |-> c.When]

\* CommitDetail{...} of a commit visited
Detail(c) ==
    [Hash |-> ShortHash(c.Hash), Message |-> TrimSpace(c.Message),
     Author |-> c.Author, Date |-> c.When]

\* authorStats[name] = 1
IncrementForgetful(m, name) ==
    IF name \in DOMAIN m THEN [m EXCEPT ![name] = 1] ELSE m @@ (name :> 1)

\* authorStats[name]++
Increment(m, name) ==
    IF name \in DOMAIN m THEN [m EXCEPT ![name] = @ + 1] ELSE m @@ (name :> 1)

\* for author, count := range authorStats { append }: in an order the
\* runtime chooses
RangeAuthorStats(m) ==
    LET n == Cardinality(DOMAIN m)
    IN  {[i \in 1..n |-> [author |-> order[i], count |-> m[order[i]]]] :
            order \in {o \in [1..n -> DOMAIN m] :
                          \A i, j \in 1..n : o[i] = o[j] => i = j}}

Swap(s, i, j) == [s EXCEPT ![i] = s[j], ![j] = s[i]]

\* the inner loop: for j := i + 1; j < len; j++, swapping when [i] has fewer
RECURSIVE SortInner(_, _, _)
SortInner(s, i, j) ==
    IF j > Len(s) THEN s
    ELSE SortInner(IF s[i].count < s[j].count THEN Swap(s, i, j) ELSE s, i, j + 1)

RECURSIVE SortOuter(_, _)
SortOuter(s, i) ==
    IF i > Len(s) THEN s ELSE SortOuter(SortInner(s, i, i + 1), i + 1)

\* "Simple sort by count (descending)"
SortByCount(s) == SortOuter(s, 1)

\* "Convert to contributors"
ToContributors(sortedAuthors) ==
    [i \in 1..Len(sortedAuthors) |->
        [Name |-> sortedAuthors[i].author,
         CommitCount |-> sortedAuthors[i].count, Rank |-> i]]

\* WeeklySummary{...}
Summary(count, changes, stats) ==
    [TotalCommits |-> count, TotalLinesChanged |-> changes,
     ActiveContributors |-> Cardinality(DOMAIN stats)]

\* s[:n] where s is longer than n
Limit(s, n) == IF Len(s) > n THEN GoSlice(s, 0, n) ELSE s

sFooter == "Generated by Prega Operator Analyzer"

CreateStandardFormat(rnf, repoURL, latestCommit, weeklySummary, people, commits) ==
    [Header |-> "Release Notes Generated on: now",
     RepositoryInfo |-> [URL |-> repoURL, Name |-> "", Description |-> ""],
     AnalysisPeriod |-> "Last 7 days (since start)",
     LatestCommit |-> latestCommit,
     WeeklySummary |-> weeklySummary,
     Contributors |-> Limit(people, rnf.MaxContributors),
     Commits |-> Limit(commits, rnf.MaxCommits),
     Footer |-> sFooter]

Line(label, val) == [line |-> label, val |-> val]
TextLine(text) == Line(text, <<>>)

sCommitsClose == <<" ", "c", "o", "m", "m", "i", "t", "s", ")", Newline>>

\* a contributor line with the rank and the count in each other's place
ContributorTextCountFirst(c) ==
    Itoa(c.CommitCount) \o <<".", " ">> \o c.Name \o <<" ", "(">>
        \o Itoa(c.Rank) \o sCommitsClose

\* fmt.Sprintf("%d. %s (%d commits)\n", Rank, Name, CommitCount)
ContributorText(c) ==
    Itoa(c.Rank) \o <<".", " ">> \o c.Name \o <<" ", "(">>
        \o Itoa(c.CommitCount) \o sCommitsClose

ContributorLine(c) == Line("contributor", ContributorText(c))
CommitLine(c) ==
    Line("commit", [Message |-> TrimSpace(c.Message), Hash |-> c.Hash,
                    Author |-> c.Author, Date |-> c.Date])
ShowingLine(shown, found) == Line("(Showing first %d of %d commits)", <<shown, found>>)

sNoCommits == "=== NO COMMITS IN LAST WEEK ==="

\* the "Recent Commits" block with nothing in place of the else branch
CommitsBlockOmitting(rnf, format) ==
    IF Len(format.Commits) > 0
    THEN <<TextLine("=== COMMITS FROM LAST WEEK ===")>>
         \o [i \in 1..Len(format.Commits) |-> CommitLine(format.Commits[i])]
    ELSE <<>>

\* the "Recent Commits" block
CommitsBlock(rnf, format) ==
    IF Len(format.Commits) > 0
    THEN LET found == Len(format.Commits)
             over == found > rnf.MaxCommits
             shown == IF over THEN rnf.MaxCommits ELSE found
         IN  <<TextLine("=== COMMITS FROM LAST WEEK ===")>>
             \o (IF over THEN <<ShowingLine(rnf.MaxCommits, found)>> ELSE <<>>)
             \o [i \in 1..shown |-> CommitLine(format.Commits[i])]
    ELSE <<TextLine(sNoCommits),
           TextLine("No commits found in the main branch during the last 7 days.")>>

FormatReleaseNote(rnf, format) ==
    <<Line("Header", format.Header),
      Line("Repository", format.RepositoryInfo.URL)>>
    \o (IF format.RepositoryInfo.Name # ""
        THEN <<Line("Name", format.RepositoryInfo.Name)>> ELSE <<>>)
    \o (IF format.RepositoryInfo.Description # ""
        THEN <<Line("Description", format.RepositoryInfo.Description)>> ELSE <<>>)
    \o <<TextLine("----"),
         Line("Analysis Period", format.AnalysisPeriod),
         Line("Analysis Start", "start"),
         Line("Analysis End", "now"),
         TextLine("=== LATEST COMMIT INFORMATION ==="),
         Line("Hash", format.LatestCommit.Hash),
         Line("Message", format.LatestCommit.Message),
         Line("Author", format.LatestCommit.Author),
         Line("Date", format.LatestCommit.Date),
         TextLine("=== WEEKLY ACTIVITY SUMMARY ==="),
         Line("Total Commits", format.WeeklySummary.TotalCommits),
         Line("Total Lines Changed", format.WeeklySummary.TotalLinesChanged),
         Line("Active Contributors", format.WeeklySummary.ActiveContributors)>>
    \o (IF Len(format.Contributors) > 0
        THEN <<TextLine("=== TOP CONTRIBUTORS (LAST WEEK) ===")>>
             \o [i \in 1..Len(format.Contributors) |->
                    ContributorLine(format.Contributors[i])]
        ELSE <<>>)
    \o CommitsBlock(rnf, format)
    \o (IF format.Footer # "" THEN <<Line("Footer", format.Footer)>> ELSE <<>>)

\* string(output) of cursor-agent or vibe-tools
Tools == {"cursor-agent", "vibe-tools"}

ToolOutput(tool) == <<Line("output", tool)>>

\* the repositories generateReleaseNotes is called on
AnalysisURLs ==
    {InputRepositories(1)[1], InputRepositories(1)[1] \o sDotGit}

AnalysisInit ==
    /\ ParserParked
    /\ RetryParked
    /\ BatchParked
    /\ AfterAnalysisParked
    /\ useCursorAgent \in BOOLEAN
    /\ onHost \in SUBSET Tools
    /\ invocations = <<>>
    /\ cloneURL \in AnalysisURLs
    /\ branches = {}
    /\ history = <<>>
    /\ apc = "clone"
    /\ dirs \in SUBSET {RepoPath(cloneURL)}
    /\ commitCount = 0
    /\ totalChanges = 0
    /\ authorStats = EmptyMap
    /\ commitDetails = NilSlice
    /\ contributors = NilSlice
    /\ notes = NotCalled
    /\ notesErr = NotCalled

\* return "", err
ReturnError(err) ==
    /\ apc' = "done"
    /\ notes' = <<>>
    /\ notesErr' = err

\* return text, nil
ReturnNotes(text) ==
    /\ apc' = "done"
    /\ notes' = text
    /\ notesErr' = Nil

\* os.RemoveAll(repoPath)
RemoveAll(existing, path) == existing \ {path}

\* os.RemoveAll, then git.PlainClone.  A clone that fails leaves behind what
\* the library leaves: nothing, or the directory it made.
Clone ==
    /\ apc = "clone"
    /\ \/ \E b \in SUBSET {"main", "master"}, h \in Histories :
            /\ branches' = b
            /\ history' = h
            /\ dirs' = RemoveAll(dirs, RepoPath(cloneURL)) \cup {RepoPath(cloneURL)}
            /\ apc' = "dispatch"
            /\ UNCHANGED <<notes, notesErr>>
       \/ /\ dirs' \in {RemoveAll(dirs, RepoPath(cloneURL)),
                        RemoveAll(dirs, RepoPath(cloneURL)) \cup {RepoPath(cloneURL)}}
          /\ ReturnError(CloneError(cloneURL))
          /\ UNCHANGED <<branches, history>>
    /\ UNCHANGED <<useCursorAgent, onHost, invocations, cloneURL, commitCount, totalChanges, authorStats,
                   commitDetails, contributors>>
    /\ UNCHANGED <<parserVars, retryVars, batchVars, afterAnalysisVars>>

\* the choice of the generator, by UseCursorAgent and exec.LookPath
\* exec.LookPath finds the program
isVibeToolsAvailable == "vibe-tools" \in onHost

isCursorAgentAvailable == "cursor-agent" \in onHost

Dispatch ==
    /\ apc = "dispatch"
    /\ apc' = IF useCursorAgent
              THEN IF ~isCursorAgentAvailable THEN "open" ELSE "cursor-agent"
              ELSE IF isVibeToolsAvailable THEN "vibe-tools" ELSE "open"
    /\ UNCHANGED <<useCursorAgent, onHost, invocations, cloneURL, branches, history, dirs, commitCount,
                   totalChanges, authorStats, commitDetails, contributors,
                   notes, notesErr>>
    /\ UNCHANGED <<parserVars, retryVars, batchVars, afterAnalysisVars>>

\* the runs of an external tool in one call: the first succeeds, or it
\* fails and a second follows
ToolTries == {<<TRUE>>, <<FALSE, TRUE>>, <<FALSE, FALSE>>}

\* both runs fail and the call is over
FallBackMissing(tool) == "done"

\* what follows the failure of both runs: generateBasicReleaseNotes
FallBack(tool) == "open"

\* the two tries of an external tool: with --since, then without; when both
\* fail the basic notes are generated
RunTool(tool) ==
    /\ apc = tool
    /\ \E tries \in ToolTries :
          /\ invocations' = tries
          /\ IF tries[Len(tries)]
             THEN /\ dirs' = RemoveAll(dirs, RepoPath(cloneURL))
                  /\ ReturnNotes(ToolOutput(tool))
             ELSE /\ apc' = FallBack(tool)
                  /\ UNCHANGED <<dirs, notes, notesErr>>
    /\ UNCHANGED <<useCursorAgent, onHost, cloneURL, branches, history, commitCount,
                   totalChanges, authorStats, commitDetails, contributors>>
    /\ UNCHANGED <<parserVars, retryVars, batchVars, afterAnalysisVars>>

generateCursorAgentReleaseNotes == RunTool("cursor-agent")

generateVibeToolsReleaseNotes == RunTool("vibe-tools")

\* a step of generateBasicReleaseNotes that goes on or returns an error
BasicStep(from, to, message, canPass, canFail) ==
    /\ apc = from
    /\ \/ /\ canPass
          /\ apc' = to
          /\ UNCHANGED <<notes, notesErr>>
       \/ /\ canFail
          /\ ReturnError(BasicError(cloneURL, message))
    /\ UNCHANGED <<useCursorAgent, onHost, invocations, cloneURL, branches, history, dirs, commitCount,
                   totalChanges, authorStats, commitDetails, contributors>>
    /\ UNCHANGED <<parserVars, retryVars, batchVars, afterAnalysisVars>>

\* git.PlainOpen(repoPath)
OpenRepository == BasicStep("open", "branch", sFailedToOpen, TRUE, TRUE)

\* repo.Reference of refs/heads/main, then of refs/heads/master
BranchReference ==
    BasicStep("branch", "commit", sFailedToGetBranch,
              branches # {}, branches = {})

\* repo.CommitObject(ref.Hash())
CommitObject == BasicStep("commit", "log", sFailedToGetCommit, TRUE, TRUE)

\* repo.Log(...)
Log == BasicStep("log", "walk", sFailedToGetLog, TRUE, TRUE)

\* what a call of c.Stats() adds to totalChanges
LinesOf(c) == IF c.Stats.stats = "ok" THEN c.Stats.lines ELSE 0

\* the callback of ForEach where a panic of c.Stats() is not recovered
VisitCommitUnrecovered ==
    /\ apc = "walk"
    /\ commitCount < Len(history)
    /\ LET c == history[commitCount + 1]
       IN  /\ commitCount' = commitCount + 1
           /\ totalChanges' = totalChanges + LinesOf(c)
           /\ IF c.Stats.stats = "panic"
              THEN /\ apc' = "panic"
                   /\ UNCHANGED <<authorStats, commitDetails>>
              ELSE /\ authorStats' = Increment(authorStats, c.Author)
                   /\ commitDetails' = Append(commitDetails, Detail(c))
                   /\ apc' = apc
    /\ UNCHANGED <<useCursorAgent, onHost, invocations, cloneURL, branches, history, dirs, contributors,
                   notes, notesErr>>
    /\ UNCHANGED <<parserVars, retryVars, batchVars, afterAnalysisVars>>

\* the callback of commitIter.ForEach, for the next commit
VisitCommit ==
    /\ apc = "walk"
    /\ commitCount < Len(history)
    /\ LET c == history[commitCount + 1]
       IN  /\ commitCount' = commitCount + 1
           /\ totalChanges' = totalChanges + LinesOf(c)
           /\ authorStats' = Increment(authorStats, c.Author)
           /\ commitDetails' = Append(commitDetails, Detail(c))
    /\ UNCHANGED <<useCursorAgent, onHost, invocations, cloneURL, branches, history, apc, dirs,
                   contributors, notes, notesErr>>
    /\ UNCHANGED <<parserVars, retryVars, batchVars, afterAnalysisVars>>

\* after ForEach: "Clean up cloned repository"
CleanUp ==
    /\ apc = "walk"
    /\ commitCount = Len(history)
    /\ dirs' = RemoveAll(dirs, RepoPath(cloneURL))
    /\ apc' = "contributors"
    /\ UNCHANGED <<useCursorAgent, onHost, invocations, cloneURL, branches, history, commitCount,
                   totalChanges, authorStats, commitDetails, contributors,
                   notes, notesErr>>
    /\ UNCHANGED <<parserVars, retryVars, batchVars, afterAnalysisVars>>

\* "Create contributors list"
CreateContributors ==
    /\ apc = "contributors"
    /\ \E sortedAuthors \in RangeAuthorStats(authorStats) :
          contributors' = ToContributors(SortByCount(sortedAuthors))
    /\ apc' = "format"
    /\ UNCHANGED <<useCursorAgent, onHost, invocations, cloneURL, branches, history, dirs, commitCount,
                   totalChanges, authorStats, commitDetails, notes, notesErr>>
    /\ UNCHANGED <<parserVars, retryVars, batchVars, afterAnalysisVars>>

\* the format of vtm.Formatter.CreateStandardFormat(...)
StandardFormat ==
    CreateStandardFormat(NewReleaseNoteFormatter, cloneURL,
                         LatestCommitInfo(Tip(history)),
                         Summary(commitCount, totalChanges, authorStats),
                         contributors, commitDetails)

\* return vtm.Formatter.FormatReleaseNote(format), nil
Format ==
    /\ apc = "format"
    /\ ReturnNotes(FormatReleaseNote(NewReleaseNoteFormatter, StandardFormat))
    /\ UNCHANGED <<useCursorAgent, onHost, invocations, cloneURL, branches, history, dirs, commitCount,
                   totalChanges, authorStats, commitDetails, contributors>>
    /\ UNCHANGED <<parserVars, retryVars, batchVars, afterAnalysisVars>>

AnalysisNext ==
    \/ Clone
    \/ Dispatch
    \/ generateCursorAgentReleaseNotes
    \/ generateVibeToolsReleaseNotes
    \/ OpenRepository
    \/ BranchReference
    \/ CommitObject
    \/ Log
    \/ VisitCommit
    \/ CleanUp
    \/ CreateContributors
    \/ Format

AnalysisSpec == AnalysisInit /\ [][AnalysisNext]_vars

-----------------------------------------------------------------------------
(* pkg/server.go: the release-notes requests of the web server.  net/http   *)
(* runs the handler of each request in a goroutine of its own, and the      *)
(* handlers take no lock, so their steps interleave.  What the handler      *)
(* reads from the clone is one step.                                        *)

Handlers == 1..MaxRequests

sAnalysis == <<"a", "n", "a", "l", "y", "s", "i", "s">>

extractRepoNameFromURL(repoURL) == LastSegment(TrimSuffix(repoURL, sDotGit))

\* filepath.Join(s.WorkDir, "analysis", repoName)
AnalysisPath(repoURL) ==
    Join(Join(WorkDir, sAnalysis), extractRepoNameFromURL(repoURL))

\* req.Repository: two repositories, a third of the name of the first, and
\* the empty string
ServerURLs ==
    {InputRepositories(2)[1], InputRepositories(2)[2],
     sHttpsScheme \o <<"g", Slash, Letters[1]>>, <<>>}

ServerInit ==
    /\ ParserParked
    /\ RetryParked
    /\ BatchParked
    /\ AnalysisParked
    /\ CallsParked
    /\ requests \in [Handlers -> ServerURLs]
    /\ spc = [h \in Handlers |-> "request"]
    /\ analysisDirs = {}
    /\ responses = [h \in Handlers |-> NotCalled]

Respond(h, response) ==
    /\ responses' = [responses EXCEPT ![h] = response]
    /\ spc' = [spc EXCEPT ![h] = "done"]

ErrorResponse(message) == [Success |-> FALSE, ErrorMessage |-> message]
NotesResponse(repoURL) == [Success |-> TRUE, Repository |-> repoURL]

\* handleReleaseNotes, up to the call of generateReleaseNotesForBranch
handleReleaseNotes(h) ==
    /\ spc[h] = "request"
    /\ IF requests[h] = <<>>
       THEN Respond(h, ErrorResponse("repository is required"))
       ELSE /\ spc' = [spc EXCEPT ![h] = "remove"]
            /\ UNCHANGED responses
    /\ UNCHANGED <<requests, analysisDirs>>
    /\ UNCHANGED <<parserVars, retryVars, batchVars, analysisVars, callVars>>

\* "Remove existing and clone fresh": os.RemoveAll(repoPath)
RemoveExisting(h) ==
    /\ spc[h] = "remove"
    /\ analysisDirs' = RemoveAll(analysisDirs, AnalysisPath(requests[h]))
    /\ spc' = [spc EXCEPT ![h] = "clone"]
    /\ UNCHANGED <<requests, responses>>
    /\ UNCHANGED <<parserVars, retryVars, batchVars, analysisVars, callVars>>

\* the two tries of git.PlainClone.  When both fail the directory is as the
\* library leaves it: as it was, made, or removed.
CloneBranch(h) ==
    /\ spc[h] = "clone"
    /\ \E first, second \in BOOLEAN :
          IF first \/ second
          THEN /\ analysisDirs' = analysisDirs \cup {AnalysisPath(requests[h])}
               /\ spc' = [spc EXCEPT ![h] = "analyze"]
               /\ UNCHANGED responses
          ELSE /\ analysisDirs' \in
                    {analysisDirs,
                     analysisDirs \cup {AnalysisPath(requests[h])},
                     RemoveAll(analysisDirs, AnalysisPath(requests[h]))}
               /\ Respond(h, ErrorResponse("failed to clone branch"))
    /\ UNCHANGED requests
    /\ UNCHANGED <<parserVars, retryVars, batchVars, analysisVars, callVars>>

\* from git.PlainOpen to formatter.FormatReleaseNote: the notes, or the
\* error of the open, of the HEAD, of the commit or of the log
AnalyzeBranch(h) ==
    /\ spc[h] = "analyze"
    /\ \E response \in
            {NotesResponse(requests[h])}
            \cup {ErrorResponse(m) :
                    m \in {"failed to open repository", "failed to get HEAD",
                           "failed to get latest commit",
                           "failed to get commit log"}} :
          responses' = [responses EXCEPT ![h] = response]
    /\ spc' = [spc EXCEPT ![h] = "deferred"]
    /\ UNCHANGED <<requests, analysisDirs>>
    /\ UNCHANGED <<parserVars, retryVars, batchVars, analysisVars, callVars>>

\* defer os.RemoveAll(repoPath)
DeferredRemoveAll(h) ==
    /\ spc[h] = "deferred"
    /\ analysisDirs' = RemoveAll(analysisDirs, AnalysisPath(requests[h]))
    /\ spc' = [spc EXCEPT ![h] = "done"]
    /\ UNCHANGED <<requests, responses>>
    /\ UNCHANGED <<parserVars, retryVars, batchVars, analysisVars, callVars>>

ServerNext ==
    \E h \in Handlers :
        \/ handleReleaseNotes(h)
        \/ RemoveExisting(h)
        \/ CloneBranch(h)
        \/ AnalyzeBranch(h)
        \/ DeferredRemoveAll(h)

ServerSpec == ServerInit /\ [][ServerNext]_vars

-----------------------------------------------------------------------------
(* Functions called on their own: fetchBranches of pkg/server.go, with the  *)
(* references of the clone as its input, and RemoveDuplicates of            *)
(* pkg/parser.go.                                                           *)

MaxRefs == 4
MaxSlice == 4

\* the bytes of the reference names, in the order of their codes
Ascii ==
    <<"-", "/", "1", "2", "A", "D", "E", "H", "a", "d", "e", "f", "g", "i",
      "l", "m", "n", "o", "r", "s", "t", "v", "z">>

ByteOf(c) == CHOOSE i \in 1..Len(Ascii) : Ascii[i] = c

\* bi < bj of two Go strings
RECURSIVE StringLess(_, _)
StringLess(a, b) ==
    IF b = <<>> THEN FALSE
    ELSE IF a = <<>> THEN TRUE
    ELSE IF Head(a) # Head(b) THEN ByteOf(Head(a)) < ByteOf(Head(b))
    ELSE StringLess(Tail(a), Tail(b))

sOriginPrefix ==
    <<"r", "e", "f", "s", "/", "r", "e", "m", "o", "t", "e", "s", "/",
      "o", "r", "i", "g", "i", "n", "/">>
sHeadsPrefix == <<"r", "e", "f", "s", "/", "h", "e", "a", "d", "s", "/">>
sHEAD == <<"H", "E", "A", "D">>
sMain == <<"m", "a", "i", "n">>
sMaster == <<"m", "a", "s", "t", "e", "r">>
sReleaseDash == <<"r", "e", "l", "e", "a", "s", "e", "-">>

\* the references a clone can have
RefPool ==
    <<sOriginPrefix \o sHEAD,
      sOriginPrefix \o sMain,
      sOriginPrefix \o sMaster,
      sOriginPrefix \o <<"d", "e", "v">>,
      sOriginPrefix \o sReleaseDash \o <<"1">>,
      sOriginPrefix \o sReleaseDash \o <<"2">>,
      sOriginPrefix \o <<"r", "e", "l", "e", "a", "s", "e">>,
      sHeadsPrefix \o <<"z", "e", "d">> >>

\* strings.TrimPrefix
TrimPrefix(s, prefix) ==
    IF HasPrefix(s, prefix) THEN GoSliceFrom(s, Len(prefix)) ELSE s

\* the callback of refs.ForEach: the names put into branchSet
RECURSIVE BranchSet(_)
BranchSet(refs) ==
    IF refs = <<>> THEN <<>>
    ELSE LET name == refs[Len(refs)]
             before == BranchSet(SubSeq(refs, 1, Len(refs) - 1))
         IN  IF HasPrefix(name, sOriginPrefix)
                    /\ TrimPrefix(name, sOriginPrefix) # sHEAD
             THEN MapSet(before, TrimPrefix(name, sOriginPrefix))
             ELSE before

\* the less function with the release branches ascending
BranchLessAscending(bi, bj) ==
    IF bi = sMain \/ bi = sMaster THEN TRUE
    ELSE IF bj = sMain \/ bj = sMaster THEN FALSE
    ELSE LET isReleaseI == HasPrefix(bi, sReleaseDash)
             isReleaseJ == HasPrefix(bj, sReleaseDash)
         IN  IF isReleaseI /\ ~isReleaseJ THEN TRUE
             ELSE IF ~isReleaseI /\ isReleaseJ THEN FALSE
             ELSE StringLess(bi, bj)

\* the less function given to sort.Slice
BranchLess(bi, bj) ==
    IF bi = sMain \/ bi = sMaster THEN TRUE
    ELSE IF bj = sMain \/ bj = sMaster THEN FALSE
    ELSE LET isReleaseI == HasPrefix(bi, sReleaseDash)
             isReleaseJ == HasPrefix(bj, sReleaseDash)
         IN  IF isReleaseI /\ ~isReleaseJ THEN TRUE
             ELSE IF ~isReleaseI /\ isReleaseJ THEN FALSE
             ELSE IF isReleaseI /\ isReleaseJ THEN StringLess(bj, bi)
             ELSE StringLess(bi, bj)

\* sort.Slice of fewer than twelve elements: an insertion sort.  Here the
\* element at j moves down while it is less than the one before it.
RECURSIVE InsertDown(_, _)
InsertDown(data, j) ==
    IF j > 1 /\ BranchLess(data[j], data[j - 1])
    THEN InsertDown(Swap(data, j, j - 1), j - 1)
    ELSE data

RECURSIVE InsertionSort(_, _)
InsertionSort(data, i) ==
    IF i > Len(data) THEN data
    ELSE InsertionSort(InsertDown(data, i), i + 1)

SortSlice(data) == InsertionSort(data, 2)

\* RemoveDuplicates, with keys the items seen
RECURSIVE RemoveDuplicatesFrom(_, _, _)
RemoveDuplicatesFrom(slice, keys, kept) ==
    IF slice = <<>> THEN kept
    ELSE IF Head(slice) \notin keys
         THEN RemoveDuplicatesFrom(Tail(slice), keys \cup {Head(slice)},
                                   Append(kept, Head(slice)))
         ELSE RemoveDuplicatesFrom(Tail(slice), keys, kept)

\* RemoveDuplicates that keeps the item that follows a repetition
RemoveDuplicatesAdjacent(slice) ==
    SelectSeq([i \in 1..Len(slice) |->
                  IF i > 1 /\ slice[i] = slice[i - 1] THEN "" ELSE slice[i]],
              LAMBDA item : item # "")

RemoveDuplicates(slice) == RemoveDuplicatesFrom(slice, {}, NilSlice)

\* the clones fetchBranches can be given, by their references in the order
\* of the pool
RefLists ==
    {SelectSeq(RefPool, LAMBDA r : r \in chosen) :
        chosen \in {c \in SUBSET Range(RefPool) : Cardinality(c) <= MaxRefs}}

\* the slices RemoveDuplicates can be given
Slices == UNION {[1..n -> {"x", "y", "z"}] : n \in 0..MaxSlice}

\* the repository URLs a caller can hand over: with and without .git, with
\* a trailing separator, with a last segment of dots, the scp form, and
\* one the URL gate refuses
CloneURLs ==
    LET base == InputRepositories(1)[1]
    IN  {base, base \o sDotGit, base \o <<Slash>>, base \o <<Slash>> \o sDotGit,
         base \o <<Slash>> \o sDot, base \o <<Slash>> \o sDotDot,
         sGitAt \o <<"h", ":", "a">>, sDotDot \o <<Slash>>}

\* the directories there are when a clone directory is deleted: the work
\* directory, the one above it, the parent of the server's clones and the
\* clone of another repository
Tree ==
    {sDot, WorkDir, Join(WorkDir, sAnalysis), Join(WorkDir, <<"z">>),
     Join(Join(WorkDir, sAnalysis), <<"z">>)}

\* the path is the directory or lies in it
Within(path, dir) ==
    \/ path = dir
    \/ dir = sDot
    \/ HasPrefix(path, dir \o <<Slash>>)

\* os.RemoveAll(path) on a tree: the path goes, and all it holds
RemoveTree(existing, path) == {d \in existing : ~Within(d, path)}

CallsInit ==
    /\ ParserParked
    /\ RetryParked
    /\ BatchParked
    /\ AnalysisParked
    /\ ServerParked
    /\ call \in {[fn |-> "fetchBranches", refs |-> r] : r \in RefLists}
                \cup {[fn |-> "RemoveDuplicates", slice |-> sl] : sl \in Slices}
                \cup {[fn |-> "RemoveExisting", server |-> sv, repoURL |-> u] :
                         sv \in BOOLEAN, u \in CloneURLs}
    /\ value = NotCalled

\* fetchBranches: the clone, the open or the listing of the references
\* fails, or the branches are ranged over and sorted
fetchBranches ==
    /\ call.fn = "fetchBranches"
    /\ value = NotCalled
    /\ \/ \E message \in {"failed to clone repository",
                          "failed to open repository",
                          "failed to get references"} :
             value' = [branches |-> NilSlice, err |-> PlainError(message)]
       \/ \E branches_ \in RangeOrders(BranchSet(call.refs)) :
             value' = [branches |-> SortSlice(branches_), err |-> Nil]
    /\ UNCHANGED call
    /\ UNCHANGED <<parserVars, retryVars, batchVars, analysisVars, serverVars>>

CallRemoveDuplicates ==
    /\ call.fn = "RemoveDuplicates"
    /\ value = NotCalled
    /\ value' = [slice |-> RemoveDuplicates(call.slice)]
    /\ UNCHANGED call
    /\ UNCHANGED <<parserVars, retryVars, batchVars, analysisVars, serverVars>>

\* the first lines of generateReleaseNotes and of
\* generateReleaseNotesForBranch: the name, the path, and os.RemoveAll of
\* the path
RemoveExistingDirectory ==
    /\ call.fn = "RemoveExisting"
    /\ value = NotCalled
    /\ LET repoPath == IF call.server THEN AnalysisPath(call.repoURL)
                                      ELSE RepoPath(call.repoURL)
       IN  value' = [repoPath |-> repoPath, left |-> RemoveTree(Tree, repoPath)]
    /\ UNCHANGED call
    /\ UNCHANGED <<parserVars, retryVars, batchVars, analysisVars, serverVars>>

CallsNext ==
    \/ fetchBranches
    \/ CallRemoveDuplicates
    \/ RemoveExistingDirectory

CallsSpec == CallsInit /\ [][CallsNext]_vars

----------------------------------------------------------------------------
(* What the claims speak of *)

ParseReturned == pc = "done"
ParseEnded == pc \in {"done", "panic"}

\* the file is there, readable and not empty
ReadableDocument == file.state = "ok" /\ file.content # <<>>

IsParseError(errorType, message) ==
    /\ parseErr # Nil
    /\ parseErr.go = "AnalyzerError"
    /\ parseErr.Type = errorType
    /\ parseErr.Message = message

RECURSIVE SkipSpaces(_, _)
SkipSpaces(s, i) == IF i <= Len(s) /\ s[i] = Space THEN SkipSpaces(s, i + 1) ELSE i

\* the quoted value that follows the key found at place at (0-based), when
\* a quote opens after it (spaces allowed) and closes on the same line
QuotedValueAfter(text, at) ==
    LET open == SkipSpaces(text, at + Len(RepositoryKey) + 1)
        close == {j \in (open + 1)..Len(text) : text[j] = Quote}
    IN  IF open > Len(text) \/ text[open] # Quote \/ close = {} THEN <<>>
        ELSE SubSeq(text, open + 1, SetMin(close) - 1)

\* the URLs of the occurrences of "repository": "https://..." in a text
OccurrenceURLs(text) ==
    LET places == {i \in 0..(Len(text) - Len(RepositoryKey)) :
                      GoSlice(text, i, i + Len(RepositoryKey)) = RepositoryKey}
    IN  {u \in {QuotedValueAfter(text, at) : at \in places} :
            HasPrefix(u, sHttpsScheme) /\ Newline \notin Range(u)}

NoDuplicates(seq) == \A i, j \in 1..Len(seq) : seq[i] = seq[j] => i = j

HasSchemePrefix(url) ==
    \/ (Len(url) >= 7 /\ SubSeq(url, 1, 7) = <<"h","t","t","p",":","/","/">>)
    \/ (Len(url) >= 8 /\ SubSeq(url, 1, 8) = <<"h","t","t","p","s",":","/","/">>)
    \/ (Len(url) >= 4 /\ SubSeq(url, 1, 4) = <<"g","i","t","@">>)

\* the document decodes as one structured catalog object with packages
IsStructuredDocument(text) ==
    /\ ~UnmarshalOperatorIndex(text).err
    /\ Len(AllProperties(UnmarshalOperatorIndex(text).index)) > 0

\* value.repository of its olm.package and olm.bundle properties, when valid
PackageBundleURLs(text) ==
    LET props == AllProperties(UnmarshalOperatorIndex(text).index)
    IN  {u \in UNION {Range(PropertyRepositories(props[i])) : i \in 1..Len(props)} :
            \E i \in 1..Len(props) :
                /\ Get(props[i], sType).s \in {sOlmPackage, sOlmBundle}
                /\ u \in Range(ValidRepositoryAt(Get(props[i], sValue), sRepository))}

----------------------------------------------------------------------------
(* The claims about ParseOperatorIndex *)

\* C1 (as claimed): a non-empty document holding an occurrence of
\* "repository": "https://..." makes ParseOperatorIndex return, without
\* error, a list that contains that URL.
C1_OccurrenceIsReturned ==
    (ParseEnded /\ ReadableDocument /\ OccurrenceURLs(file.content) # {})
        => /\ ParseReturned
           /\ parseErr = Nil
           /\ result # NilSlice
           /\ \A u \in OccurrenceURLs(file.content) : u \in Range(result)

C3_EmptyIsValidation ==
    (file.state = "ok" /\ file.content = <<>>)
        => /\ pc \in {"stat", "open", "read", "done"}
           /\ ParseReturned =>
                 /\ IsParseError(ErrorTypeValidation, "index file is empty")
                 /\ result = NilSlice

C3_Witness == ParseReturned /\ file.state = "ok" /\ file.content = <<>>

\* C4: the returned list never holds a URL twice; the document that names
\* one repository through the three strategies yields it once.
C4_NoDuplicates ==
    (ParseReturned /\ parseErr = Nil)
        => /\ NoDuplicates(result)
           /\ file.content = cAllThree => result = <<urlA>>

\* C4's case: the generic entry, the structured walk and the raw scan
\* each admit https://a, and the list returned has it once
C4_Witness ==
    /\ ParseReturned
    /\ file.content = cAllThree
    /\ urlA \in Range(EntryRepositories(allEntries[1]))
    /\ urlA \in Range(StructuredRepositories(UnmarshalOperatorIndex(content).index))
    /\ urlA \in Range(extractRepositoriesFromRawJSON(content).found)
    /\ result = <<urlA>>

\* C5: every URL admitted to the map, and so every URL returned, starts
\* with http://, https:// or git@; the gate accepts the three schemes and
\* rejects ftp://, the empty string and plain text.
C5_OnlyValidSchemes ==
    /\ \A i \in 1..Len(repositories) : HasSchemePrefix(repositories[i])
    /\ (ParseReturned /\ parseErr = Nil) => \A i \in 1..Len(result) : HasSchemePrefix(result[i])
    /\ isValidRepositoryURL(urlA) /\ isValidRepositoryURL(urlHttp) /\ isValidRepositoryURL(urlGit)
    /\ ~isValidRepositoryURL(urlFtp) /\ ~isValidRepositoryURL(<<>>) /\ ~isValidRepositoryURL(sNotJson)

\* C5's case: an entry naming ftp://d and one naming git@c were read, and
\* only git@c is returned
C5_Witness ==
    /\ ParseReturned
    /\ file.content = cFtp \o <<Newline>> \o cBundleEntry
    /\ result = <<urlGit>>

\* C6 (as claimed): for a single structured object, every olm.package or
\* olm.bundle property whose value.repository is a valid URL contributes
\* it to the result, and the example document yields exactly
\* [https://github.com/test/operator].
C6_StructuredIsFound ==
    (ParseEnded /\ ReadableDocument /\ IsStructuredDocument(file.content))
        => /\ ParseReturned
           /\ parseErr = Nil
           /\ result # NilSlice
           /\ \A u \in PackageBundleURLs(file.content) : u \in Range(result)
           /\ file.content = cExample => result = <<urlOperator>>

\* the objects the loop over the lines decodes before it ends or breaks
RECURSIVE NdjsonRun(_, _, _, _)
NdjsonRun(lines, gathered, count, entries) ==
    IF lines = <<>> THEN [entries |-> entries, broke |-> FALSE]
    ELSE LET line == TrimSpace(Head(lines))
             more == gathered \o line
             braces == count + BraceDelta(line)
         IN  IF line = <<>> THEN NdjsonRun(Tail(lines), gathered, count, entries)
             ELSE IF braces # 0 THEN NdjsonRun(Tail(lines), more, braces, entries)
             ELSE IF UnmarshalEntry(more).err
                  THEN [entries |-> entries, broke |-> TRUE]
                  ELSE NdjsonRun(Tail(lines), <<>>, 0,
                                 Append(entries, UnmarshalEntry(more).entry))

\* C25 (as claimed): when the loop over the lines breaks at a chunk that
\* does not decode, the repositories of the objects decoded before it are in
\* the result.
C25_EarlierObjectsAreKept ==
    LET run == NdjsonRun(Split(file.content), <<>>, 0, <<>>)
    IN  (ParseEnded /\ ReadableDocument /\ run.broke /\ run.entries # <<>>)
            => /\ ParseReturned
               /\ parseErr = Nil
               /\ \A i \in 1..Len(run.entries) :
                     \A u \in Range(EntryRepositories(run.entries[i])) :
                         u \in Range(result)

\* value.annotations.repository of the olm.csv.metadata properties, when
\* valid
CsvMetadataURLs(text) ==
    LET props == AllProperties(UnmarshalOperatorIndex(text).index)
    IN  UNION {Range(ValidRepositoryAt(Get(Get(props[i], sValue), sAnnotations),
                                       sRepository)) :
                  i \in {j \in 1..Len(props) :
                            /\ props[j].t = "obj"
                            /\ HasKey(props[j], sType)
                            /\ Get(props[j], sType) = JStr(sOlmCsvMetadata)
                            /\ HasKey(props[j], sValue)
                            /\ Get(props[j], sValue).t = "obj"
                            /\ HasKey(Get(props[j], sValue), sAnnotations)}}

\* C26 (as claimed): the olm.csv.metadata repositories of a single
\* structured object are in the result, also when it is on one line.
C26_CsvMetadataIsFound ==
    (ParseEnded /\ ReadableDocument /\ IsStructuredDocument(file.content)
        /\ CsvMetadataURLs(file.content) # {})
        => /\ ParseReturned
           /\ parseErr = Nil
           /\ \A u \in CsvMetadataURLs(file.content) : u \in Range(result)

\* C7 (as claimed): ParseOperatorIndex never crashes, and returns either a
\* non-empty list with a nil error or a nil list with an AnalyzerError of
\* kind FileSystem, Validation or Parsing.
C7_TwoOutcomes ==
    /\ pc # "panic"
    /\ ParseReturned =>
          \/ /\ parseErr = Nil
             /\ result # NilSlice
             /\ Len(result) > 0
          \/ /\ result = NilSlice
             /\ parseErr # Nil
             /\ parseErr.go = "AnalyzerError"
             /\ parseErr.Type \in {ErrorTypeFileSystem, ErrorTypeValidation, ErrorTypeParsing}

----------------------------------------------------------------------------
(* Retry handler claims *)

RetryReturned == rpc = "returned"

\* the errors the retry table calls retryable
RetryableByTable(e) ==
    /\ e.go = "AnalyzerError"
    /\ \/ e.Type \in {ErrorTypeNetwork, ErrorTypeTimeout}
       \/ e.Type = ErrorTypeGit /\ e.Message \in {sFailedToClone, sFailedToFetch}

\* C8: a Network error is retryable with a delay of 5 s, a Timeout error is
\* retryable with 10 s, a Git error has a delay of 3 s and is retryable only
\* when its message is "failed to clone repository" or "failed to fetch",
\* and a Parsing, FileSystem, Validation or Unknown error is not retryable
\* and has delay 0, whatever the wrapped cause and the context are.
C8_RetryTable ==
    rpc = "classified" =>
        LET e == classified.err IN
            /\ e.Type = ErrorTypeNetwork =>
                    classified.retryable /\ classified.delay = 5
            /\ e.Type = ErrorTypeTimeout =>
                    classified.retryable /\ classified.delay = 10
            /\ e.Type = ErrorTypeGit =>
                    /\ classified.retryable <=>
                            e.Message \in {"failed to clone repository",
                                           "failed to fetch"}
                    /\ classified.delay = 3
            /\ e.Type \in {ErrorTypeParsing, ErrorTypeFileSystem,
                           ErrorTypeValidation, ErrorTypeUnknown} =>
                    ~classified.retryable /\ classified.delay = 0

C8_Witness ==
    /\ rpc = "classified"
    /\ classified.err.Type = ErrorTypeGit
    /\ classified.err.Message = sBranchNotFound
    /\ classified.err.Err # Nil
    /\ classified.err.Context # <<>>
    /\ ~classified.retryable
    /\ classified.delay = 3

\* what C9 says of every state of a HandleWithRetry call
C9_Bounded ==
    /\ Len(outcomes) <= maxRetries + 1
    /\ \A i \in 1..Len(outcomes) :
            outcomes[i] = Nil =>
                i = Len(outcomes) /\ RetryReturned /\ returned = Nil
    /\ (RetryReturned /\ \A i \in 1..Len(outcomes) : RetryableByTable(outcomes[i]))
            => /\ Len(outcomes) = maxRetries + 1
               /\ maxRetries = DefaultMaxRetries => Len(outcomes) = 4

\* C9: HandleWithRetry always terminates and invokes the operation at most
\* MaxRetries + 1 times; an operation that always fails with a retryable
\* error is invoked exactly MaxRetries + 1 times (4 under the default of 3);
\* once an invocation returns nil the operation is not invoked again and
\* HandleWithRetry returns nil.
C9_TerminatesWithinBudget ==
    /\ [] C9_Bounded
    /\ <>(rpc \in {"returned", "classified"})

C9_Witness ==
    /\ RetryReturned
    /\ maxRetries = DefaultMaxRetries
    /\ Len(outcomes) = 4
    /\ \A i \in 1..Len(outcomes) : RetryableByTable(outcomes[i])
    /\ returned = outcomes[4]

\* the failures C10 names
NonRetryableFailure(e) ==
    \/ e.go = "error"
    \/ /\ e.go = "AnalyzerError"
       /\ \/ e.Type \in {ErrorTypeParsing, ErrorTypeFileSystem,
                         ErrorTypeValidation, ErrorTypeUnknown}
          \/ e.Type = ErrorTypeGit
                /\ e.Message \notin {sFailedToClone, sFailedToFetch}

\* C10: when an invocation fails with a non-retryable error (Parsing,
\* FileSystem, Validation, Unknown, Git with another message, or an error
\* that is not an AnalyzerError), the operation is not invoked again, no
\* sleep happens after it, and HandleWithRetry returns an error after that
\* attempt, whatever MaxRetries is.
C10_NonRetryableStops ==
    \A i \in 1..Len(outcomes) :
        NonRetryableFailure(outcomes[i]) =>
            /\ i = Len(outcomes)
            /\ Len(sleeps) = i - 1
            /\ rpc \in {"giveup", "returned"}
            /\ RetryReturned => returned # Nil /\ returned = outcomes[i]

C10_Witness ==
    /\ RetryReturned
    /\ Len(outcomes) = 2
    /\ maxRetries >= 3
    /\ NonRetryableFailure(outcomes[2])
    /\ outcomes[2].go = "AnalyzerError"
    /\ outcomes[2].Type = ErrorTypeGit
    /\ Len(sleeps) = 1
    /\ returned = outcomes[2]

NoticeCount(level) == Cardinality({i \in 1..Len(notices) : notices[i] = level})

\* C11: when HandleWithRetry gives up, it returns the very error the last
\* invocation of the operation returned, unchanged (an error that is not an
\* AnalyzerError is returned as it was, not as the Unknown wrapper built to
\* classify it), and exactly one error notice is emitted.
C11_LastErrorUnchanged ==
    (RetryReturned /\ Len(outcomes) > 0 /\ LastOutcome # Nil)
        => /\ returned = LastOutcome
           /\ LastOutcome.go = "error" => returned.go = "error"
           /\ NoticeCount("error") = 1

\* C11's case: after one retry the operation failed with an error that is
\* not an AnalyzerError, and that error came back
C11_Witness ==
    /\ RetryReturned
    /\ Len(outcomes) = 2
    /\ LastOutcome = PlainError("boom")
    /\ returned = PlainError("boom")
    /\ notices = <<"warn", "error">>

----------------------------------------------------------------------------
(* ProcessRepositories claims *)

BatchReturned == bpc = "done"
BatchReturnedNil == bpc = "done" /\ batchErr = Nil

\* the text report: what the output file accepted
Report == Accepted(writes)

\* the section the loop has for repository i
SectionOf(i) ==
    IF results[i].err = Nil THEN NotesSection(repos[i])
    ELSE FormatErrorSection(repos[i], results[i].err)

\* the text was handed to the output file and the file took it / refused it
WasWritten(text, accepted) ==
    \E k \in 1..Len(writes) : writes[k] = [text |-> text, accepted |-> accepted]

\* what C12 says apart from the failure section
C12_RunGoesOn ==
    /\ batchErr \notin {NotCalled, Nil} =>
          /\ batchErr.Message \in {"failed to create output file",
                                   "failed to write header"}
          /\ results = <<>>
    /\ BatchReturnedNil => Len(results) = Len(repos)
    /\ bpc \in {"loop", "handle"} => batchErr = NotCalled

C13_SummaryCounts ==
    BatchReturnedNil =>
        LET n == Len(repos)
            ok == Cardinality({i \in 1..Len(results) : results[i].last = Nil})
            bad == Cardinality({i \in 1..Len(results) : results[i].last # Nil})
        IN  /\ summary.total = n
            /\ summary.success = ok
            /\ summary.failed = bad
            /\ summary.success + summary.failed = n
            /\ (n = 5 /\ bad = 2) =>
                  /\ summary.success = 3
                  /\ summary.rate = [tenths |-> 600]

\* C13's case: 5 repositories, one fails with a retryable error after
\* MaxRetries + 1 invocations, one with a terminal error
C13_Witness ==
    /\ BatchReturnedNil
    /\ Len(repos) = 5
    /\ results[2].err = BasicError(repos[2], sFailedToGetBranch)
    /\ results[5].err = CloneError(repos[5])
    /\ Len(outcomes) = DefaultMaxRetries + 1
    /\ summary = ProcessingSummary(5, 3, 2)
    /\ summary.rate = [tenths |-> 600]

\* the report ProcessRepositories means to leave
WholeReport ==
    <<ReportHeader>> \o [i \in 1..Len(results) |-> SectionOf(i)] \o <<summary>>

\* every failure section names the repository, the kind and message of the
\* error, and a time
C14_FailureSectionsNameTheError ==
    \A i \in 1..Len(results) :
        results[i].err # Nil =>
            /\ SectionOf(i).sec = "error"
            /\ SectionOf(i).repo = repos[i]
            /\ Len(SectionOf(i).error) >= 2
            /\ SectionOf(i).error[1] = results[i].err.Type
            /\ SectionOf(i).error[2] = results[i].err.Message
            /\ SectionOf(i).timestamp = "now"

-----------------------------------------------------------------------------
(* generateReleaseNotes claims *)

AnalysisReturned == apc = "done"

\* the notes generateBasicReleaseNotes returned
BasicNotesReturned ==
    /\ AnalysisReturned
    /\ notesErr = Nil
    /\ notes \notin {ToolOutput("cursor-agent"), ToolOutput("vibe-tools")}

\* generateReleaseNotes returned after its clone succeeded
ReturnedOnceCloned == AnalysisReturned /\ notesErr # CloneError(cloneURL)

\* the external generator of this manager
Generator == IF useCursorAgent THEN "cursor-agent" ELSE "vibe-tools"

BasicStages == {"open", "branch", "commit", "log", "walk", "panic", "contributors", "format"}

\* the clone succeeded and the generator is not on the host or failed twice
GeneratorOfNoUse ==
    /\ apc \notin {"parked", "clone", "dispatch"}
    /\ notesErr # CloneError(cloneURL)
    /\ Generator \notin onHost \/ invocations = <<FALSE, FALSE>>

\* C23: the external generator runs only when it is on the host; once the
\* clone succeeded, a generator that is absent or failed twice leaves the
\* call in generateBasicReleaseNotes, whose notes or whose git error is what
\* the call returns.
C23_FallbackIsGuaranteed ==
    /\ apc \in Tools \/ invocations # <<>> => Generator \in onHost
    /\ apc \in Tools => apc = Generator
    /\ GeneratorOfNoUse =>
          \/ apc \in BasicStages
          \/ BasicNotesReturned
          \/ AnalysisReturned /\ notesErr \in BasicErrors(cloneURL)

\* C23's case: vibe-tools is on the host, failed twice, and the basic
\* notes were returned
C23_Witness ==
    /\ ~useCursorAgent
    /\ onHost = {"vibe-tools"}
    /\ invocations = <<FALSE, FALSE>>
    /\ BasicNotesReturned
    /\ Len(commitDetails) > 0

\* C15: when a call that analyzes one repository has returned, on success or
\* with an error of any step after the clone, the directory it cloned into
\* is no longer there.
C15_NoCloneLeftBehind ==
    ReturnedOnceCloned => RepoPath(cloneURL) \notin dirs

\* the commits the traversal has been called for
Visited == SubSeq(history, 1, commitCount)

\* the lines a commit contributes: none when its statistics failed
ContributedLines(c) ==
    IF c.Stats \in {StatsError, StatsPanic} THEN 0 ELSE c.Stats.lines

RECURSIVE TotalLines(_)
TotalLines(commits) ==
    IF commits = <<>> THEN 0
    ELSE ContributedLines(Head(commits)) + TotalLines(Tail(commits))

CommitsOf(name, commits) ==
    Cardinality({i \in 1..Len(commits) : commits[i].Author = name})

StatsFailedAt(i) == history[i].Stats \in {StatsError, StatsPanic}

\* C17: a commit whose statistics fail with an error or a panic is still
\* appended with its hash, message, author and date, counts for its author
\* and for the total, adds no line, and the commits after it are visited:
\* the traversal ends only when every commit has been visited.
C17_StatsFailureIsIsolated ==
    /\ commitCount <= Len(history)
    /\ Len(commitDetails) = commitCount
    /\ \A i \in 1..commitCount :
          /\ commitDetails[i].Hash = ShortHash(history[i].Hash)
          /\ commitDetails[i].Message = TrimSpace(history[i].Message)
          /\ commitDetails[i].Author = history[i].Author
          /\ commitDetails[i].Date = history[i].When
    /\ DOMAIN authorStats = {Visited[i].Author : i \in 1..commitCount}
    /\ \A name \in DOMAIN authorStats :
          authorStats[name] = CommitsOf(name, Visited)
    /\ totalChanges = TotalLines(Visited)
    /\ apc \in {"contributors", "format"} \/ BasicNotesReturned
          => commitCount = Len(history)

C17_Witness ==
    /\ BasicNotesReturned
    /\ Len(history) = 3
    /\ history[1].Stats = StatsPanic
    /\ history[2].Stats = StatsError
    /\ ~StatsFailedAt(3)
    /\ Len(commitDetails) = 3
    /\ totalChanges = 2

LinesOfSection(section) == Range(section)
Labels(section) == {section[i].line : i \in 1..Len(section)}

\* C18: when the branch has no commit of the last week the analysis returns
\* no error and its section shows 0 commits, 0 lines, no contributor, the
\* tip of the branch as the latest commit, and a "no commits" block.
C18_EmptyWindowSucceeds ==
    (BasicNotesReturned /\ history = <<>>) =>
        /\ Line("Total Commits", 0) \in LinesOfSection(notes)
        /\ Line("Total Lines Changed", 0) \in LinesOfSection(notes)
        /\ Line("Active Contributors", 0) \in LinesOfSection(notes)
        /\ "contributor" \notin Labels(notes)
        /\ "commit" \notin Labels(notes)
        /\ Line("Hash", ShortHash(OldTip.Hash)) \in LinesOfSection(notes)
        /\ ShortHash(OldTip.Hash) # <<>>
        /\ Line("Author", OldTip.Author) \in LinesOfSection(notes)
        /\ Line("Date", OldTip.When) \in LinesOfSection(notes)
        /\ sNoCommits \in Labels(notes)

C18_Witness ==
    /\ BasicNotesReturned
    /\ history = <<>>
    /\ branches = {"master"}
    /\ sNoCommits \in Labels(notes)

\* where the traversal first met an author
FirstMet(name) ==
    SetMin({i \in 1..Len(history) : history[i].Author = name})

\* C19: the contributors are in the order of their commit counts, the
\* larger first, and two authors of the same count are in the order in
\* which the traversal first met them.
C19_TiesKeepEncounterOrder ==
    apc = "format" =>
        \A i, j \in 1..Len(contributors) :
            i < j =>
                \/ contributors[i].CommitCount > contributors[j].CommitCount
                \/ /\ contributors[i].CommitCount = contributors[j].CommitCount
                   /\ FirstMet(contributors[i].Name) < FirstMet(contributors[j].Name)

\* C20: a section of more commits than MaxCommits says that it shows the
\* first MaxCommits of the number found.
C20_TruncationIsAnnounced ==
    (BasicNotesReturned /\ commitCount > DefaultMaxCommits) =>
        ShowingLine(DefaultMaxCommits, commitCount) \in LinesOfSection(notes)

\* the sum of the counts of a map from names to counts
RECURSIVE SumOf(_, _)
SumOf(m, names) ==
    IF names = {} THEN 0
    ELSE LET name == CHOOSE n \in names : TRUE
         IN  m[name] + SumOf(m, names \ {name})

RECURSIVE SumOfCommitCounts(_)
SumOfCommitCounts(people) ==
    IF people = <<>> THEN 0
    ELSE Head(people).CommitCount + SumOfCommitCounts(Tail(people))

\* the contributors list has been made
ContributorsMade == apc = "format" \/ BasicNotesReturned

\* C30: at every step of the traversal and after it, the commit count is
\* the number of commit records and the sum of the authors' counts, and the
\* number of authors counted is the number of distinct author names of the
\* records; the contributors made from them are as many, each author once,
\* with the same counts, and the summary states these numbers.
C30_SummaryIsConsistent ==
    /\ commitCount = Len(commitDetails)
    /\ commitCount = SumOf(authorStats, DOMAIN authorStats)
    /\ DOMAIN authorStats = {commitDetails[i].Author : i \in 1..Len(commitDetails)}
    /\ ContributorsMade =>
          LET weekly == Summary(commitCount, totalChanges, authorStats)
          IN  /\ weekly.TotalCommits = Len(commitDetails)
              /\ weekly.TotalCommits = SumOfCommitCounts(contributors)
              /\ weekly.ActiveContributors = Len(contributors)
              /\ weekly.ActiveContributors =
                    Cardinality({commitDetails[i].Author : i \in 1..Len(commitDetails)})
              /\ \A i, j \in 1..Len(contributors) :
                    contributors[i].Name = contributors[j].Name => i = j
              /\ \A i \in 1..Len(contributors) :
                    contributors[i].CommitCount =
                        CommitsOf(contributors[i].Name, commitDetails)

\* C30's case: three commits of two authors, the statistics of one failed
C30_Witness ==
    /\ ContributorsMade
    /\ apc = "format"
    /\ Len(commitDetails) = 3
    /\ StatsFailedAt(2)
    /\ Len(contributors) = 2
    /\ contributors[1].CommitCount = 2

-----------------------------------------------------------------------------
(* pkg/formatter.go claims *)

DigitValue(c) == CHOOSE d \in 0..9 : Digits[d + 1] = c

\* the number a run of decimal digits writes
RECURSIVE Atoi(_)
Atoi(digits) ==
    IF digits = <<>> THEN 0
    ELSE 10 * Atoi(SubSeq(digits, 1, Len(digits) - 1))
            + DigitValue(digits[Len(digits)])

\* the 0-based place of the last occurrence
LastIndex(s, substr) ==
    LET hits == {i \in 0..(Len(s) - Len(substr)) :
                    GoSlice(s, i, i + Len(substr)) = substr}
    IN  CHOOSE i \in hits : \A j \in hits : j <= i

\* "<rank>. <name> (<count> commits)" read back: the rank ends at the first
\* ". ", the count starts after the last " ("
ReadContributorLine(text) ==
    LET dot == Index(text, <<".", " ">>)
        paren == LastIndex(text, <<" ", "(">>)
    IN  [Name |-> GoSlice(text, dot + 2, paren),
         CommitCount |-> Atoi(GoSlice(text, paren + 2, Len(text) - Len(sCommitsClose))),
         Rank |-> Atoi(GoSlice(text, 0, dot))]

\* the contributor lines of a section, read back in order
ReadContributors(section) ==
    LET lines == SelectSeq(section, LAMBDA l : l.line = "contributor")
    IN  [i \in 1..Len(lines) |-> ReadContributorLine(lines[i].val)]

\* C21 (as claimed): reading back the contributor lines of the rendered
\* section gives the ranked contributor sequence that was rendered: the same
\* authors, counts and order, with the ranks 1..n.
C21_RoundTrip ==
    BasicNotesReturned =>
        /\ ReadContributors(notes) = contributors
        /\ \A i \in 1..Len(contributors) : contributors[i].Rank = i

\* C21 (amended): reading back the contributor lines of the rendered
\* section gives the first MaxContributors entries of the ranked contributor
\* sequence that was rendered, which is all of it when it has no more: the
\* same authors, counts and order, with the ranks 1..n.
C21_RoundTripUpToTheCap ==
    BasicNotesReturned =>
        /\ ReadContributors(notes) =
              SubSeq(contributors, 1,
                     IF Len(contributors) > DefaultMaxContributors
                     THEN DefaultMaxContributors ELSE Len(contributors))
        /\ \A i \in 1..Len(contributors) : contributors[i].Rank = i

\* C21's case: a section of two contributors, the second of a name with
\* " (1 commits)" in it, read back as rendered
C21_Witness ==
    /\ BasicNotesReturned
    /\ Len(contributors) = 2
    /\ contributors[1].CommitCount = 2
    /\ contributors[2].Name = Authors[2]
    /\ ReadContributors(notes) = contributors

-----------------------------------------------------------------------------
(* Server claims *)

\* the handler of a request is inside generateReleaseNotesForBranch
InProgress(h) == spc[h] \in {"remove", "clone", "analyze", "deferred"}

\* C16: no two analyses are in progress against the same clone directory.
C16_OneAnalysisPerDirectory ==
    \A h1, h2 \in DOMAIN spc :
        (h1 # h2 /\ InProgress(h1) /\ InProgress(h2)) =>
            AnalysisPath(requests[h1]) # AnalysisPath(requests[h2])

\* an invocation has returned and what follows it has not happened yet
AfterInvocation == rpc \in {"sleep", "giveup", "returned"} /\ outcomes # <<>>

\* C27: there is one sleep between two consecutive invocations, as long as
\* GetRetryDelay of the error of the earlier one says, and one warning with
\* it; none before the first invocation, none after the last; the success
\* notice is logged exactly when an invocation other than the first
\* succeeded.
C27_OneSleepBetweenInvocations ==
    /\ rpc = "call" => Len(sleeps) = Len(outcomes)
    /\ AfterInvocation => Len(sleeps) = Len(outcomes) - 1
    /\ outcomes = <<>> => sleeps = <<>>
    /\ \A i \in 1..Len(sleeps) :
          /\ outcomes[i] # Nil
          /\ sleeps[i] = GetRetryDelay(AsAnalyzerError(outcomes[i]))
    /\ NoticeCount("warn") = Len(sleeps)
    /\ \A i \in 1..Len(notices) :
          notices[i] = "warn" => \A j \in 1..(i - 1) : notices[j] = "warn"
    /\ NoticeCount("info") =
          IF outcomes # <<>> /\ LastOutcome = Nil /\ Len(outcomes) > 1 THEN 1 ELSE 0

\* C27's case: two failures were slept on and the third invocation
\* succeeded
C27_Witness ==
    /\ rpc = "returned"
    /\ Len(outcomes) = 3
    /\ LastOutcome = Nil
    /\ Len(sleeps) = 2
    /\ sleeps[1] # sleeps[2]
    /\ notices = <<"warn", "warn", "info">>

\* C28 (as claimed): HandleWithRetry returns nil only when the operation
\* was invoked and its last invocation returned nil, whatever MaxRetries is.
C28_NilOnlyAfterSuccess ==
    (rpc = "returned" /\ returned = Nil)
        => /\ outcomes # <<>>
           /\ outcomes[Len(outcomes)] = Nil

-----------------------------------------------------------------------------
(* fetchBranches and RemoveDuplicates claims *)

BranchesReturned ==
    /\ call.fn = "fetchBranches"
    /\ value # NotCalled
    /\ value.err = Nil

\* the names of the remote branches of the clone
RemoteBranches ==
    {GoSliceFrom(r, Len(sOriginPrefix)) :
        r \in {x \in Range(call.refs) : HasPrefix(x, sOriginPrefix)}}

\* 0 for main and master, 1 for release-*, 2 for the others
BranchClass(b) ==
    IF b \in {sMain, sMaster} THEN 0
    ELSE IF HasPrefix(b, sReleaseDash) THEN 1 ELSE 2

Deduplicated ==
    /\ call.fn = "RemoveDuplicates"
    /\ value # NotCalled

\* where an item first is in a slice
FirstAt(item, slice) == SetMin({i \in 1..Len(slice) : slice[i] = item})

RECURSIVE Distinct(_)
Distinct(slice) ==
    IF slice = <<>> THEN <<>>
    ELSE LET before == Distinct(SubSeq(slice, 1, Len(slice) - 1))
             item == slice[Len(slice)]
         IN  IF item \in Range(before) THEN before ELSE Append(before, item)

\* C24: RemoveDuplicates returns the elements of its input once each, in
\* the order of their first occurrences; an input without repetition comes
\* back as it is, and a second application changes nothing.
C24_RemoveDuplicates ==
    Deduplicated =>
        /\ Len(value.slice) = Cardinality(Range(value.slice))
        /\ Range(value.slice) = Range(call.slice)
        /\ \A i, j \in 1..Len(value.slice) :
              i < j => FirstAt(value.slice[i], call.slice) < FirstAt(value.slice[j], call.slice)
        /\ Len(call.slice) = Cardinality(Range(call.slice)) => value.slice = call.slice
        /\ Distinct(value.slice) = value.slice

C24_Witness ==
    /\ Deduplicated
    /\ call.slice = <<"x", "y", "x", "z">>
    /\ value.slice = <<"x", "y", "z">>

\* C29 (as claimed): for a URL that passes the URL gate the clone directory
\* is a directory inside the work directory, other than the work directory,
\* and deleting it leaves the work directory and all outside it in place.
C29_CloneStaysInsideWorkDir ==
    (call.fn = "RemoveExisting" /\ value # NotCalled
        /\ isValidRepositoryURL(call.repoURL))
        => /\ value.repoPath # WorkDir
           /\ HasPrefix(value.repoPath, WorkDir \o <<Slash>>)
           /\ {sDot, WorkDir} \subseteq value.left

=============================================================================
